---- MODULE Spec2Model ----
(***************************************************************************)
(* Reversi (src/reversi.js): the rule engine (countFlips, isValidMove,     *)
(* getValidMoves, makeMove, countDiscs) and the game controller            *)
(* (handleCellClick, makeComputerMove, checkGameState, undo, restart).     *)
(***************************************************************************)
EXTENDS Integers, Sequences, FiniteSets, TLC

\* ------------------------------------------------------------------------
\* Game constants (src/reversi.js:8-18)
\* ------------------------------------------------------------------------
BOARD_SIZE == 8
EMPTY == 0
BLACK == 1
WHITE == 2

DIRECTIONS ==
    << <<-1, -1>>, <<-1, 0>>, <<-1, 1>>,
       <<0, -1>>,             <<0, 1>>,
       <<1, -1>>,  <<1, 0>>,  <<1, 1>> >>

Idx == 0 .. (BOARD_SIZE - 1)
Cells == Idx \X Idx
Discs == {BLACK, WHITE}

\* the cells in the order of the nested row/column loops
RowMajor == [i \in 1 .. (BOARD_SIZE * BOARD_SIZE) |->
                << (i - 1) \div BOARD_SIZE, (i - 1) % BOARD_SIZE >>]

\* the other colour: `player === BLACK ? WHITE : BLACK`
Other(player) == IF player = BLACK THEN WHITE ELSE BLACK

\* Array.from({length: 8}, () => Array(8).fill(EMPTY))
EmptyBoard == [r \in Idx |-> [c \in Idx |-> EMPTY]]

\* ------------------------------------------------------------------------
\* Rule engine
\* ------------------------------------------------------------------------
isInBounds(x, y) == x >= 0 /\ x < BOARD_SIZE /\ y >= 0 /\ y < BOARD_SIZE

countDiscs(b) ==
    LET black == Cardinality({cell \in Cells : b[cell[1]][cell[2]] = BLACK})
        white == Cardinality({cell \in Cells : b[cell[1]][cell[2]] = WHITE})
    IN  [black |-> black, white |-> white, total |-> black + white]

\* the while loop of countFlips: walks over opponent discs counting them
RECURSIVE CountRun(_, _, _, _, _, _, _)
CountRun(b, x, y, dx, dy, player, tempFlips) ==
    IF isInBounds(x, y) /\ b[x][y] # EMPTY /\ b[x][y] # player
    THEN CountRun(b, x + dx, y + dy, dx, dy, player, tempFlips + 1)
    ELSE [x |-> x, y |-> y, tempFlips |-> tempFlips]

\* one step of the reduce over DIRECTIONS in countFlips
CountDirectionBuggy(b, row, col, player, d) ==
    LET s == CountRun(b, row + d[1], col + d[2], d[1], d[2], player, 0)
    IN  IF isInBounds(s.x, s.y) /\ s.tempFlips > 0
        THEN s.tempFlips ELSE 0

CountDirection(b, row, col, player, d) ==
    LET s == CountRun(b, row + d[1], col + d[2], d[1], d[2], player, 0)
    IN  IF isInBounds(s.x, s.y) /\ b[s.x][s.y] = player /\ s.tempFlips > 0
        THEN s.tempFlips ELSE 0

RECURSIVE SumDirections(_, _, _, _, _)
SumDirections(b, row, col, player, i) ==
    IF i > Len(DIRECTIONS) THEN 0
    ELSE CountDirection(b, row, col, player, DIRECTIONS[i])
         + SumDirections(b, row, col, player, i + 1)

countFlips(b, row, col, player) ==
    IF b[row][col] # EMPTY THEN 0
    ELSE SumDirections(b, row, col, player, 1)

isValidMoveNoEmptyCheck(b, row, col, player) ==
    SumDirections(b, row, col, player, 1) > 0

isValidMove(b, row, col, player) ==
    IF b[row][col] # EMPTY THEN FALSE
    ELSE countFlips(b, row, col, player) > 0

getValidMovesColumnMajor(b, player) ==
    SelectSeq([i \in 1 .. (BOARD_SIZE * BOARD_SIZE) |->
                   << (i - 1) % BOARD_SIZE, (i - 1) \div BOARD_SIZE >>],
              LAMBDA cell : isValidMove(b, cell[1], cell[2], player))

getValidMoves(b, player) ==
    SelectSeq(RowMajor, LAMBDA cell : isValidMove(b, cell[1], cell[2], player))

\* the while loop of makeMove: collects the opponent discs of one direction
RECURSIVE CollectRun(_, _, _, _, _, _, _)
CollectRun(b, x, y, dx, dy, player, discsToFlip) ==
    IF isInBounds(x, y) /\ b[x][y] # EMPTY /\ b[x][y] # player
    THEN CollectRun(b, x + dx, y + dy, dx, dy, player,
                    Append(discsToFlip, <<x, y>>))
    ELSE [x |-> x, y |-> y, discsToFlip |-> discsToFlip]

RECURSIVE FlipAllRemoves(_, _, _, _)
FlipAllRemoves(b, discsToFlip, player, i) ==
    IF i > Len(discsToFlip) THEN b
    ELSE FlipAllRemoves([b EXCEPT ![discsToFlip[i][1]][discsToFlip[i][2]] = EMPTY],
                        discsToFlip, player, i + 1)

\* discsToFlip.forEach(([flipX, flipY]) => board[flipX][flipY] = player)
RECURSIVE FlipAll(_, _, _, _)
FlipAll(b, discsToFlip, player, i) ==
    IF i > Len(discsToFlip) THEN b
    ELSE FlipAll([b EXCEPT ![discsToFlip[i][1]][discsToFlip[i][2]] = player],
                 discsToFlip, player, i + 1)

\* one iteration of DIRECTIONS.forEach in makeMove, on the board as the
\* earlier iterations left it
FlipDirectionUnterminated(b, row, col, player, d) ==
    LET s == CollectRun(b, row + d[1], col + d[2], d[1], d[2], player, <<>>)
    IN  IF Len(s.discsToFlip) > 0
        THEN FlipAll(b, s.discsToFlip, player, 1) ELSE b

FlipDirection(b, row, col, player, d) ==
    LET s == CollectRun(b, row + d[1], col + d[2], d[1], d[2], player, <<>>)
    IN  IF isInBounds(s.x, s.y) /\ b[s.x][s.y] = player /\ Len(s.discsToFlip) > 0
        THEN FlipAll(b, s.discsToFlip, player, 1) ELSE b

RECURSIVE FlipDirections(_, _, _, _, _)
FlipDirections(b, row, col, player, i) ==
    IF i > Len(DIRECTIONS) THEN b
    ELSE FlipDirections(FlipDirection(b, row, col, player, DIRECTIONS[i]),
                        row, col, player, i + 1)

makeMoveNoPlacement(b, row, col, player) ==
    FlipDirections(b, row, col, player, 1)

makeMove(b, row, col, player) ==
    FlipDirections([b EXCEPT ![row][col] = player], row, col, player, 1)

\* ------------------------------------------------------------------------
\* Static evaluator
\* ------------------------------------------------------------------------
positionWeights ==
    << <<100, -20, 10,  5,  5, 10, -20, 100>>,
       <<-20, -50, -2, -2, -2, -2, -50, -20>>,
       << 10,  -2,  5,  1,  1,  5,  -2,  10>>,
       <<  5,  -2,  1,  0,  0,  1,  -2,   5>>,
       <<  5,  -2,  1,  0,  0,  1,  -2,   5>>,
       << 10,  -2,  5,  1,  1,  5,  -2,  10>>,
       <<-20, -50, -2, -2, -2, -2, -50, -20>>,
       <<100, -20, 10,  5,  5, 10, -20, 100>> >>

evaluatePositionShifted(row, col) ==
    positionWeights[row + 1][((col + 1) % BOARD_SIZE) + 1]

evaluatePosition(row, col) == positionWeights[row + 1][col + 1]

corners ==
    << <<0, 0>>, <<0, BOARD_SIZE - 1>>,
       <<BOARD_SIZE - 1, 0>>, <<BOARD_SIZE - 1, BOARD_SIZE - 1>> >>

\* sum of f over the elements of a sequence, left to right
SumSeq(seq, f(_)) ==
    LET sum[i \in 0 .. Len(seq)] ==
            IF i = 0 THEN 0 ELSE sum[i - 1] + f(seq[i])
    IN  sum[Len(seq)]

\* The phase weights of evaluateBoard are decimals with one fractional
\* digit; every score of the evaluator and of the search is kept here as
\* an integer number of tenths (Scale = 10), which orders scores as the
\* exact decimals do.
Scale == 10

PhaseWeightsMidForEarly(gamePhase) ==
    CASE gamePhase = "early" ->
           [discParity |-> 8, mobility |-> 20, corner |-> 30,
            position |-> 10, edge |-> 10, potentialMobility |-> 5]
      [] gamePhase = "mid" ->
           [discParity |-> 8, mobility |-> 20, corner |-> 30,
            position |-> 10, edge |-> 10, potentialMobility |-> 5]
      [] gamePhase = "late" ->
           [discParity |-> 35, mobility |-> 10, corner |-> 20,
            position |-> 5, edge |-> 5, potentialMobility |-> 0]

PhaseWeights(gamePhase) ==
    CASE gamePhase = "early" ->
           [discParity |-> 1, mobility |-> 25, corner |-> 40,
            position |-> 10, edge |-> 15, potentialMobility |-> 10]
      [] gamePhase = "mid" ->
           [discParity |-> 8, mobility |-> 20, corner |-> 30,
            position |-> 10, edge |-> 10, potentialMobility |-> 5]
      [] gamePhase = "late" ->
           [discParity |-> 35, mobility |-> 10, corner |-> 20,
            position |-> 5, edge |-> 5, potentialMobility |-> 0]

\* +1 for a cell of maxPlayer, -1 for a cell of minPlayer
Sign(v, maxPlayer, minPlayer) ==
    IF v = maxPlayer THEN 1 ELSE IF v = minPlayer THEN -1 ELSE 0

\* the loop over corners in evaluateBoard
cornerScore(b, maxPlayer, minPlayer) ==
    SumSeq(corners, LAMBDA cell : 25 * Sign(b[cell[1]][cell[2]], maxPlayer, minPlayer))

edgeControlInnerColumns(b, maxPlayer, minPlayer) ==
    SumSeq([i \in 1 .. BOARD_SIZE |-> i - 1],
           LAMBDA col : Sign(b[0][col], maxPlayer, minPlayer)
                        + Sign(b[BOARD_SIZE - 1][col], maxPlayer, minPlayer))
    + SumSeq([i \in 1 .. (BOARD_SIZE - 2) |-> i],
           LAMBDA row : Sign(b[row][0], maxPlayer, minPlayer)
                        + Sign(b[row][BOARD_SIZE - 1], maxPlayer, minPlayer))

\* the two scans of evaluateBoard, of the border rows and of the border
\* columns
edgeControl(b, maxPlayer, minPlayer) ==
    SumSeq([i \in 1 .. BOARD_SIZE |-> i - 1],
           LAMBDA col : Sign(b[0][col], maxPlayer, minPlayer)
                        + Sign(b[BOARD_SIZE - 1][col], maxPlayer, minPlayer))
    + SumSeq([i \in 1 .. BOARD_SIZE |-> i - 1],
           LAMBDA row : Sign(b[row][0], maxPlayer, minPlayer)
                        + Sign(b[row][BOARD_SIZE - 1], maxPlayer, minPlayer))

\* the count of empty squares next to a disc of minPlayer in evaluateBoard
potentialMobility(b, minPlayer) ==
    Cardinality({cell \in Cells :
        /\ b[cell[1]][cell[2]] = EMPTY
        /\ \E i \in 1 .. Len(DIRECTIONS) :
              LET newRow == cell[1] + DIRECTIONS[i][1]
                  newCol == cell[2] + DIRECTIONS[i][2]
              IN  isInBounds(newRow, newCol) /\ b[newRow][newCol] = minPlayer})

\* the last loop of evaluateBoard
positionScore(b, maxPlayer, minPlayer) ==
    SumSeq(RowMajor,
           LAMBDA cell : Sign(b[cell[1]][cell[2]], maxPlayer, minPlayer)
                         * evaluatePosition(cell[1], cell[2]))

evaluateBoard(b, maxPlayer, minPlayer, gamePhase) ==
    LET counts == countDiscs(b)
        discParity == IF maxPlayer = BLACK THEN counts.black - counts.white
                      ELSE counts.white - counts.black
        mobility == Len(getValidMoves(b, maxPlayer))
                    - Len(getValidMoves(b, minPlayer))
        w == PhaseWeights(gamePhase)
    IN  w.discParity * discParity
        + w.mobility * mobility
        + w.corner * cornerScore(b, maxPlayer, minPlayer)
        + w.position * positionScore(b, maxPlayer, minPlayer)
        + w.edge * edgeControl(b, maxPlayer, minPlayer)
        + w.potentialMobility * potentialMobility(b, minPlayer)

\* ------------------------------------------------------------------------
\* Search engine
\* ------------------------------------------------------------------------
\* Infinity / -Infinity: beyond every score (|score| <= 64 * 1000 * Scale)
Infinity == 1000000000

Max2(a, b) == IF a >= b THEN a ELSE b
Min2(a, b) == IF a <= b THEN a ELSE b

RECURSIVE minimax(_, _, _, _, _, _, _, _)
RECURSIVE MaxLoop(_, _, _, _, _, _, _, _, _, _)
RECURSIVE MinLoop(_, _, _, _, _, _, _, _, _, _)

RECURSIVE MaxLoopEager(_, _, _, _, _, _, _, _, _, _)
MaxLoopEager(b, validMoves, i, depth, alpha, beta, maxEval, maxPlayer, minPlayer, gamePhase) ==
    IF i > Len(validMoves) THEN maxEval
    ELSE LET boardCopy == makeMove(b, validMoves[i][1], validMoves[i][2], maxPlayer)
             eval == minimax(boardCopy, depth - 1, alpha, beta, FALSE,
                             maxPlayer, minPlayer, gamePhase)
             newMax == Max2(maxEval, eval)
             newAlpha == Max2(alpha, eval)
         IN  IF newAlpha <= beta THEN newMax
             ELSE MaxLoopEager(b, validMoves, i + 1, depth, newAlpha, beta, newMax,
                               maxPlayer, minPlayer, gamePhase)

\* the for loop of the maximizing branch, from the i-th move on
MaxLoop(b, validMoves, i, depth, alpha, beta, maxEval, maxPlayer, minPlayer, gamePhase) ==
    IF i > Len(validMoves) THEN maxEval
    ELSE LET boardCopy == makeMove(b, validMoves[i][1], validMoves[i][2], maxPlayer)
             eval == minimax(boardCopy, depth - 1, alpha, beta, FALSE,
                             maxPlayer, minPlayer, gamePhase)
             newMax == Max2(maxEval, eval)
             newAlpha == Max2(alpha, eval)
         IN  IF beta <= newAlpha THEN newMax
             ELSE MaxLoop(b, validMoves, i + 1, depth, newAlpha, beta, newMax,
                          maxPlayer, minPlayer, gamePhase)

\* the for loop of the minimizing branch, from the i-th move on
MinLoop(b, validMoves, i, depth, alpha, beta, minEval, maxPlayer, minPlayer, gamePhase) ==
    IF i > Len(validMoves) THEN minEval
    ELSE LET boardCopy == makeMove(b, validMoves[i][1], validMoves[i][2], minPlayer)
             eval == minimax(boardCopy, depth - 1, alpha, beta, TRUE,
                             maxPlayer, minPlayer, gamePhase)
             newMin == Min2(minEval, eval)
             newBeta == Min2(beta, eval)
         IN  IF newBeta <= alpha THEN newMin
             ELSE MinLoop(b, validMoves, i + 1, depth, alpha, newBeta, newMin,
                          maxPlayer, minPlayer, gamePhase)

minimaxTerminalFirst(b, depth, alpha, beta, isMaximizingPlayer, maxPlayer, minPlayer, gamePhase) ==
    LET currentPlayer_ == IF isMaximizingPlayer THEN maxPlayer ELSE minPlayer
        validMoves == getValidMoves(b, currentPlayer_)
    IN  IF Len(validMoves) = 0 /\ Len(getValidMoves(b, Other(currentPlayer_))) = 0
        THEN LET counts == countDiscs(b)
                 scoreDiff == IF maxPlayer = BLACK
                              THEN counts.black - counts.white
                              ELSE counts.white - counts.black
             IN  scoreDiff * 1000 * Scale
        ELSE IF depth = 0 THEN evaluateBoard(b, maxPlayer, minPlayer, gamePhase)
        ELSE IF Len(validMoves) = 0
        THEN minimax(b, depth - 1, alpha, beta, ~isMaximizingPlayer,
                     maxPlayer, minPlayer, gamePhase)
        ELSE IF isMaximizingPlayer
        THEN MaxLoop(b, validMoves, 1, depth, alpha, beta, -Infinity,
                     maxPlayer, minPlayer, gamePhase)
        ELSE MinLoop(b, validMoves, 1, depth, alpha, beta, Infinity,
                     maxPlayer, minPlayer, gamePhase)

minimaxPassKeepsDepth(b, depth, alpha, beta, isMaximizingPlayer, maxPlayer, minPlayer, gamePhase) ==
    LET currentPlayer_ == IF isMaximizingPlayer THEN maxPlayer ELSE minPlayer
    IN  IF depth = 0 THEN evaluateBoard(b, maxPlayer, minPlayer, gamePhase)
        ELSE LET validMoves == getValidMoves(b, currentPlayer_)
             IN  IF Len(validMoves) = 0
                 THEN IF Len(getValidMoves(b, Other(currentPlayer_))) = 0
                      THEN LET counts == countDiscs(b)
                               scoreDiff == IF maxPlayer = BLACK
                                            THEN counts.black - counts.white
                                            ELSE counts.white - counts.black
                           IN  scoreDiff * 1000 * Scale
                      ELSE minimax(b, depth, alpha, beta, ~isMaximizingPlayer,
                                   maxPlayer, minPlayer, gamePhase)
                 ELSE IF isMaximizingPlayer
                      THEN MaxLoop(b, validMoves, 1, depth, alpha, beta, -Infinity,
                                   maxPlayer, minPlayer, gamePhase)
                      ELSE MinLoop(b, validMoves, 1, depth, alpha, beta, Infinity,
                                   maxPlayer, minPlayer, gamePhase)

minimax(b, depth, alpha, beta, isMaximizingPlayer, maxPlayer, minPlayer, gamePhase) ==
    LET currentPlayer_ == IF isMaximizingPlayer THEN maxPlayer ELSE minPlayer
    IN  IF depth = 0 THEN evaluateBoard(b, maxPlayer, minPlayer, gamePhase)
        ELSE LET validMoves == getValidMoves(b, currentPlayer_)
             IN  IF Len(validMoves) = 0
                 THEN IF Len(getValidMoves(b, Other(currentPlayer_))) = 0
                      THEN LET counts == countDiscs(b)
                               scoreDiff == IF maxPlayer = BLACK
                                            THEN counts.black - counts.white
                                            ELSE counts.white - counts.black
                           IN  scoreDiff * 1000 * Scale
                      ELSE minimax(b, depth - 1, alpha, beta, ~isMaximizingPlayer,
                                   maxPlayer, minPlayer, gamePhase)
                 ELSE IF isMaximizingPlayer
                      THEN MaxLoop(b, validMoves, 1, depth, alpha, beta, -Infinity,
                                   maxPlayer, minPlayer, gamePhase)
                      ELSE MinLoop(b, validMoves, 1, depth, alpha, beta, Infinity,
                                   maxPlayer, minPlayer, gamePhase)

\* ------------------------------------------------------------------------
\* Difficulty strategies
\* ------------------------------------------------------------------------
\* makeEasyMove with Math.floor(Math.random() * length) = randomIndex
makeEasyMove(validMoves, randomIndex) ==
    IF Len(validMoves) = 1 THEN validMoves[1]
    ELSE validMoves[randomIndex + 1]

adjacentCorners ==
    { <<0, 1>>, <<1, 0>>, <<1, 1>>,
      <<0, BOARD_SIZE - 2>>, <<1, BOARD_SIZE - 1>>, <<1, BOARD_SIZE - 2>>,
      <<BOARD_SIZE - 2, 0>>, <<BOARD_SIZE - 1, 1>>, <<BOARD_SIZE - 2, 1>>,
      <<BOARD_SIZE - 2, BOARD_SIZE - 1>>, <<BOARD_SIZE - 1, BOARD_SIZE - 2>>,
      <<BOARD_SIZE - 2, BOARD_SIZE - 2>> }

isCorner(row, col) ==
    (row = 0 \/ row = BOARD_SIZE - 1) /\ (col = 0 \/ col = BOARD_SIZE - 1)

scoreMapWithoutCorners(row, col) ==
    IF <<row, col>> \in adjacentCorners THEN 0
    ELSE IF (row = 0 \/ row = BOARD_SIZE - 1) /\ col >= 1 /\ col < BOARD_SIZE - 1 THEN 5
    ELSE IF (col = 0 \/ col = BOARD_SIZE - 1) /\ row >= 1 /\ row < BOARD_SIZE - 1 THEN 5
    ELSE 1

\* scoreMap of makeMediumMove after its three passes (fill 1, corners 10,
\* edges 5, corner neighbours 0; later passes overwrite earlier ones)
scoreMap(row, col) ==
    IF <<row, col>> \in adjacentCorners THEN 0
    ELSE IF (row = 0 \/ row = BOARD_SIZE - 1) /\ col >= 1 /\ col < BOARD_SIZE - 1 THEN 5
    ELSE IF (col = 0 \/ col = BOARD_SIZE - 1) /\ row >= 1 /\ row < BOARD_SIZE - 1 THEN 5
    ELSE IF isCorner(row, col) THEN 10
    ELSE 1

\* validMoves.reduce(... > ... ? currentMove : bestMove, validMoves[0])
RECURSIVE MediumReduce(_, _, _)
MediumReduce(validMoves, i, bestMove) ==
    IF i > Len(validMoves) THEN bestMove
    ELSE MediumReduce(validMoves, i + 1,
            IF scoreMap(validMoves[i][1], validMoves[i][2])
               > scoreMap(bestMove[1], bestMove[2])
            THEN validMoves[i] ELSE bestMove)

RECURSIVE MediumReduceLast(_, _, _)
MediumReduceLast(validMoves, i, bestMove) ==
    IF i > Len(validMoves) THEN bestMove
    ELSE MediumReduceLast(validMoves, i + 1,
             IF scoreMap(validMoves[i][1], validMoves[i][2])
                    >= scoreMap(bestMove[1], bestMove[2])
             THEN validMoves[i] ELSE bestMove)

makeMediumMoveLastBest(validMoves) ==
    IF Len(validMoves) = 1 THEN validMoves[1]
    ELSE MediumReduceLast(validMoves, 1, validMoves[1])

makeMediumMoveFromOrigin(validMoves) ==
    IF Len(validMoves) = 1 THEN validMoves[1]
    ELSE MediumReduce(validMoves, 1, <<0, 0>>)

makeMediumMove(validMoves) ==
    IF Len(validMoves) = 1 THEN validMoves[1]
    ELSE MediumReduce(validMoves, 1, validMoves[1])

GamePhaseLateEarlier(totalDiscs) ==
    IF totalDiscs < 20 THEN "early"
    ELSE IF totalDiscs < 49 THEN "mid" ELSE "late"

GamePhase(totalDiscs) ==
    IF totalDiscs < 20 THEN "early"
    ELSE IF totalDiscs < 50 THEN "mid" ELSE "late"

SearchDepthFromBound(gamePhase, n) ==
    IF gamePhase = "late"
    THEN (IF n >= 8 THEN 3 ELSE IF n >= 4 THEN 4 ELSE 5)
    ELSE (IF n >= 10 THEN 2 ELSE IF n >= 6 THEN 3 ELSE 4)

SearchDepth(gamePhase, n) ==
    IF gamePhase = "late"
    THEN (IF n > 8 THEN 3 ELSE IF n > 4 THEN 4 ELSE 5)
    ELSE (IF n > 10 THEN 2 ELSE IF n > 6 THEN 3 ELSE 4)

\* the for loop of makeHardMove, from the i-th move on
RECURSIVE HardLoopLastWins(_, _, _, _, _, _, _, _)
HardLoopLastWins(liveBoard, validMoves, i, searchDepth, bestScore, bestMove, computerDisc_, gamePhase) ==
    IF i > Len(validMoves) THEN bestMove
    ELSE LET boardCopy == makeMove(liveBoard, validMoves[i][1], validMoves[i][2], computerDisc_)
             score == minimax(boardCopy, searchDepth - 1, -Infinity, Infinity, FALSE,
                              computerDisc_, Other(computerDisc_), gamePhase)
         IN  IF score >= bestScore
             THEN HardLoopLastWins(liveBoard, validMoves, i + 1, searchDepth, score,
                           validMoves[i], computerDisc_, gamePhase)
             ELSE HardLoopLastWins(liveBoard, validMoves, i + 1, searchDepth, bestScore,
                           bestMove, computerDisc_, gamePhase)

RECURSIVE HardLoop(_, _, _, _, _, _, _, _)
HardLoop(liveBoard, validMoves, i, searchDepth, bestScore, bestMove, computerDisc_, gamePhase) ==
    IF i > Len(validMoves) THEN bestMove
    ELSE LET boardCopy == makeMove(liveBoard, validMoves[i][1], validMoves[i][2], computerDisc_)
             score == minimax(boardCopy, searchDepth - 1, -Infinity, Infinity, FALSE,
                              computerDisc_, Other(computerDisc_), gamePhase)
         IN  IF score > bestScore
             THEN HardLoop(liveBoard, validMoves, i + 1, searchDepth, score,
                           validMoves[i], computerDisc_, gamePhase)
             ELSE HardLoop(liveBoard, validMoves, i + 1, searchDepth, bestScore,
                           bestMove, computerDisc_, gamePhase)

makeHardMoveLastCorner(validMoves, liveBoard, computerDisc_) ==
    IF Len(validMoves) = 1 THEN validMoves[1]
    ELSE LET cornerMoves == SelectSeq(validMoves, LAMBDA m : isCorner(m[1], m[2]))
         IN  IF Len(cornerMoves) > 0 THEN cornerMoves[Len(cornerMoves)]
             ELSE LET gamePhase == GamePhase(countDiscs(liveBoard).total)
                      searchDepth == SearchDepth(gamePhase, Len(validMoves))
                  IN  HardLoop(liveBoard, validMoves, 1, searchDepth, -Infinity,
                               validMoves[1], computerDisc_, gamePhase)

\* makeHardMove reads gameState.board and gameState.computerDisc
makeHardMove(validMoves, liveBoard, computerDisc_) ==
    IF Len(validMoves) = 1 THEN validMoves[1]
    ELSE LET cornerMoves == SelectSeq(validMoves, LAMBDA m : isCorner(m[1], m[2]))
         IN  IF Len(cornerMoves) > 0 THEN cornerMoves[1]
             ELSE LET gamePhase == GamePhase(countDiscs(liveBoard).total)
                      searchDepth == SearchDepth(gamePhase, Len(validMoves))
                  IN  HardLoop(liveBoard, validMoves, 1, searchDepth, -Infinity,
                               validMoves[1], computerDisc_, gamePhase)

\* ------------------------------------------------------------------------
\* The search with the board objects it writes. makeMove writes the array it
\* is handed; JSON.parse(JSON.stringify(board)) makes a new array. Arrays
\* are numbered: object is the array a call was handed, next the number of
\* arrays made so far, writes the arrays makeMove was called on, in order.
\* minimax, the two loops and evaluateBoard hold no assignment to a field of
\* gameState and no other call that writes.
\* ------------------------------------------------------------------------
RECURSIVE minimaxTraced(_, _, _, _, _, _, _, _, _, _)
RECURSIVE LoopTraced(_, _, _, _, _, _, _, _, _, _, _, _, _, _, _)

LoopTracedInPlace(object, next, b, validMoves, i, depth, alpha, beta, isMaximizingPlayer, best, writes, levels, maxPlayer, minPlayer, gamePhase) ==
    IF i > Len(validMoves)
    THEN [value |-> best, next |-> next, writes |-> writes, levels |-> levels]
    ELSE LET currentPlayer_ == IF isMaximizingPlayer THEN maxPlayer ELSE minPlayer
             moved == makeMove(b, validMoves[i][1], validMoves[i][2], currentPlayer_)
             sub == minimaxTraced(object, next, moved, depth - 1, alpha, beta,
                                  ~isMaximizingPlayer, maxPlayer, minPlayer, gamePhase)
             newBest == IF isMaximizingPlayer THEN Max2(best, sub.value)
                        ELSE Min2(best, sub.value)
             newAlpha == IF isMaximizingPlayer THEN Max2(alpha, sub.value) ELSE alpha
             newBeta == IF isMaximizingPlayer THEN beta ELSE Min2(beta, sub.value)
             newWrites == Append(writes, object) \o sub.writes
             newLevels == Max2(levels, 1 + sub.levels)
         IN  IF newBeta <= newAlpha
             THEN [value |-> newBest, next |-> sub.next, writes |-> newWrites,
                   levels |-> newLevels]
             ELSE LoopTraced(object, sub.next, moved, validMoves, i + 1, depth,
                             newAlpha, newBeta, isMaximizingPlayer, newBest,
                             newWrites, newLevels, maxPlayer, minPlayer, gamePhase)

\* the for loop of either branch of minimax, from the i-th move on: the copy
\* is the array next + 1, makeMove writes it, and minimax is handed it
LoopTraced(object, next, b, validMoves, i, depth, alpha, beta, isMaximizingPlayer, best, writes, levels, maxPlayer, minPlayer, gamePhase) ==
    IF i > Len(validMoves)
    THEN [value |-> best, next |-> next, writes |-> writes, levels |-> levels]
    ELSE LET currentPlayer_ == IF isMaximizingPlayer THEN maxPlayer ELSE minPlayer
             boardCopy == next + 1
             moved == makeMove(b, validMoves[i][1], validMoves[i][2], currentPlayer_)
             sub == minimaxTraced(boardCopy, boardCopy, moved, depth - 1, alpha, beta,
                                  ~isMaximizingPlayer, maxPlayer, minPlayer, gamePhase)
             newBest == IF isMaximizingPlayer THEN Max2(best, sub.value)
                        ELSE Min2(best, sub.value)
             newAlpha == IF isMaximizingPlayer THEN Max2(alpha, sub.value) ELSE alpha
             newBeta == IF isMaximizingPlayer THEN beta ELSE Min2(beta, sub.value)
             newWrites == Append(writes, boardCopy) \o sub.writes
             newLevels == Max2(levels, 1 + sub.levels)
         IN  IF newBeta <= newAlpha
             THEN [value |-> newBest, next |-> sub.next, writes |-> newWrites,
                   levels |-> newLevels]
             ELSE LoopTraced(object, sub.next, b, validMoves, i + 1, depth,
                             newAlpha, newBeta, isMaximizingPlayer, newBest,
                             newWrites, newLevels, maxPlayer, minPlayer, gamePhase)

minimaxTracedPassKeepsDepth(object, next, b, depth, alpha, beta, isMaximizingPlayer, maxPlayer, minPlayer, gamePhase) ==
    LET currentPlayer_ == IF isMaximizingPlayer THEN maxPlayer ELSE minPlayer
    IN  IF depth = 0
        THEN [value |-> evaluateBoard(b, maxPlayer, minPlayer, gamePhase),
              next |-> next, writes |-> <<>>, levels |-> 0]
        ELSE LET validMoves == getValidMoves(b, currentPlayer_)
             IN  IF Len(validMoves) = 0
                 THEN IF Len(getValidMoves(b, Other(currentPlayer_))) = 0
                      THEN LET counts == countDiscs(b)
                               scoreDiff == IF maxPlayer = BLACK
                                            THEN counts.black - counts.white
                                            ELSE counts.white - counts.black
                           IN  [value |-> scoreDiff * 1000 * Scale,
                                next |-> next, writes |-> <<>>, levels |-> 0]
                      ELSE LET sub == minimaxTraced(object, next, b, depth, alpha,
                                                    beta, ~isMaximizingPlayer,
                                                    maxPlayer, minPlayer, gamePhase)
                           IN  [sub EXCEPT !.levels = @ + 1]
                 ELSE LoopTraced(object, next, b, validMoves, 1, depth, alpha, beta,
                                 isMaximizingPlayer,
                                 IF isMaximizingPlayer THEN -Infinity ELSE Infinity,
                                 <<>>, 0, maxPlayer, minPlayer, gamePhase)

minimaxTraced(object, next, b, depth, alpha, beta, isMaximizingPlayer, maxPlayer, minPlayer, gamePhase) ==
    LET currentPlayer_ == IF isMaximizingPlayer THEN maxPlayer ELSE minPlayer
    IN  IF depth = 0
        THEN [value |-> evaluateBoard(b, maxPlayer, minPlayer, gamePhase),
              next |-> next, writes |-> <<>>, levels |-> 0]
        ELSE LET validMoves == getValidMoves(b, currentPlayer_)
             IN  IF Len(validMoves) = 0
                 THEN IF Len(getValidMoves(b, Other(currentPlayer_))) = 0
                      THEN LET counts == countDiscs(b)
                               scoreDiff == IF maxPlayer = BLACK
                                            THEN counts.black - counts.white
                                            ELSE counts.white - counts.black
                           IN  [value |-> scoreDiff * 1000 * Scale,
                                next |-> next, writes |-> <<>>, levels |-> 0]
                      ELSE LET sub == minimaxTraced(object, next, b, depth - 1, alpha,
                                                    beta, ~isMaximizingPlayer,
                                                    maxPlayer, minPlayer, gamePhase)
                           IN  [sub EXCEPT !.levels = @ + 1]
                 ELSE LoopTraced(object, next, b, validMoves, 1, depth, alpha, beta,
                                 isMaximizingPlayer,
                                 IF isMaximizingPlayer THEN -Infinity ELSE Infinity,
                                 <<>>, 0, maxPlayer, minPlayer, gamePhase)

\* the for loop of makeHardMove, from the i-th move on; the live board is
\* the array 0
RECURSIVE HardLoopTraced(_, _, _, _, _, _, _, _, _, _)
HardLoopTraced(next, liveBoard, validMoves, i, searchDepth, bestScore, bestMove, writes, computerDisc_, gamePhase) ==
    IF i > Len(validMoves) THEN [move |-> bestMove, next |-> next, writes |-> writes]
    ELSE LET boardCopy == next + 1
             moved == makeMove(liveBoard, validMoves[i][1], validMoves[i][2], computerDisc_)
             sub == minimaxTraced(boardCopy, boardCopy, moved, searchDepth - 1,
                                  -Infinity, Infinity, FALSE,
                                  computerDisc_, Other(computerDisc_), gamePhase)
             newWrites == Append(writes, boardCopy) \o sub.writes
         IN  IF sub.value > bestScore
             THEN HardLoopTraced(sub.next, liveBoard, validMoves, i + 1, searchDepth,
                                 sub.value, validMoves[i], newWrites, computerDisc_, gamePhase)
             ELSE HardLoopTraced(sub.next, liveBoard, validMoves, i + 1, searchDepth,
                                 bestScore, bestMove, newWrites, computerDisc_, gamePhase)

makeHardMoveTraced(validMoves, liveBoard, computerDisc_) ==
    IF Len(validMoves) = 1 THEN [move |-> validMoves[1], next |-> 0, writes |-> <<>>]
    ELSE LET cornerMoves == SelectSeq(validMoves, LAMBDA m : isCorner(m[1], m[2]))
         IN  IF Len(cornerMoves) > 0
             THEN [move |-> cornerMoves[1], next |-> 0, writes |-> <<>>]
             ELSE LET gamePhase == GamePhase(countDiscs(liveBoard).total)
                      searchDepth == SearchDepth(gamePhase, Len(validMoves))
                  IN  HardLoopTraced(0, liveBoard, validMoves, 1, searchDepth,
                                     -Infinity, validMoves[1], <<>>, computerDisc_,
                                     gamePhase)

\* what minimax returns for each move of the list when makeHardMove searches
HardScores(moves, liveBoard, computerDisc_) ==
    LET gamePhase == GamePhase(countDiscs(liveBoard).total)
        searchDepth == SearchDepth(gamePhase, Len(moves))
    IN  [i \in 1 .. Len(moves) |->
            minimax(makeMove(liveBoard, moves[i][1], moves[i][2], computerDisc_),
                    searchDepth - 1, -Infinity, Infinity, FALSE,
                    computerDisc_, Other(computerDisc_), gamePhase)]

\* how often makeHardMove calls minimax: not at all when it returns the only
\* move or a corner, else once for every move of the list
minimaxCalls(validMoves) ==
    IF Len(validMoves) = 1 THEN 0
    ELSE IF \E i \in 1 .. Len(validMoves) : isCorner(validMoves[i][1], validMoves[i][2])
    THEN 0
    ELSE Len(validMoves)

\* ------------------------------------------------------------------------
\* Game controller: state
\* ------------------------------------------------------------------------
VARIABLES
    board,              \* gameState.board (the live board object)
    currentPlayer,      \* gameState.currentPlayer
    isGameOver,         \* gameState.isGameOver
    playerDisc,         \* gameState.playerDisc
    computerDisc,       \* gameState.computerDisc
    isComputerThinking, \* gameState.isComputerThinking
    moveHistory,        \* gameState.moveHistory
    moveCounter,        \* gameState.moveCounter
    lastMove,           \* gameState.lastMove (Null or <<row, col>>)
    difficulty,         \* DOM.difficultySelector.value
    blackScore,         \* DOM.blackScore.textContent
    whiteScore,         \* DOM.whiteScore.textContent
    statusMessage,      \* DOM.statusMessage.textContent
    saved,              \* localStorage['reversiGameState']: <<>> or <<state>>
    timers,             \* pending setTimeout callbacks, in scheduling order
    detached,           \* former live boards still held by a pending callback
    clicks,             \* moves of the player so far (bounds the behaviour)
    last,               \* the handler that ran last and what it did
    call,               \* rule-engine harness: the arguments of the calls
    result,             \* rule-engine harness: the values returned so far
    pc                  \* rule-engine harness: the next call

gsVars == <<board, currentPlayer, isGameOver, playerDisc, computerDisc,
            isComputerThinking, moveHistory, moveCounter, lastMove>>
domVars == <<difficulty, blackScore, whiteScore, statusMessage>>
ctlVars == <<gsVars, domVars, saved, timers, detached, clicks, last>>
ruleVars == <<call, result, pc>>
vars == <<ctlVars, ruleVars>>

Null == <<>>

\* bounds of the model: MaxClicks moves of the player are followed, those
\* after the first on boards with at most EndgameCells empty cells; the
\* difficulty listener runs makeComputerMove while fewer than MaxTimers
\* callbacks are pending
MaxClicks == 1
EndgameCells == 4
MaxTimers == 2

\* moveHistory keeps the last 10 snapshots
HistoryLimit == 10

StartBoard ==
    LET mid == BOARD_SIZE \div 2
    IN  [EmptyBoard EXCEPT ![mid - 1][mid - 1] = WHITE, ![mid - 1][mid] = BLACK,
                           ![mid][mid - 1] = BLACK, ![mid][mid] = WHITE]

\* the two kinds of pending callback:
\*   setTimeout(makeComputerMove, 500)
\*   setTimeout(() => {...}, 1000) inside makeComputerMove, which closes over
\*   board, computerDisc and playerDisc as they were when it was created;
\*   ref = 0: the captured board is the live board object, ref = k > 0: it
\*   is the object detached[k]
MoveTimer == [kind |-> "move", ref |-> 0, computerDisc |-> 0, playerDisc |-> 0]
ThinkTimer(st) == [kind |-> "think", ref |-> 0,
                   computerDisc |-> st.computerDisc, playerDisc |-> st.playerDisc]

NoCheck == [ran |-> FALSE, currentPlayer |-> 0, isGameOver |-> FALSE, scheduled |-> 0]

\* the controller state as one value, so that the handlers compose
St == [board |-> board, currentPlayer |-> currentPlayer, isGameOver |-> isGameOver,
       playerDisc |-> playerDisc, computerDisc |-> computerDisc,
       isComputerThinking |-> isComputerThinking, moveHistory |-> moveHistory,
       moveCounter |-> moveCounter, lastMove |-> lastMove,
       difficulty |-> difficulty, blackScore |-> blackScore,
       whiteScore |-> whiteScore, statusMessage |-> statusMessage,
       saved |-> saved, timers |-> timers, detached |-> detached,
       check |-> NoCheck]

\* ------------------------------------------------------------------------
\* Game controller: the functions of src/reversi.js on that state
\* ------------------------------------------------------------------------
updateScores(st) ==
    [st EXCEPT
       !.blackScore = Cardinality({cell \in Cells : st.board[cell[1]][cell[2]] = BLACK}),
       !.whiteScore = Cardinality({cell \in Cells : st.board[cell[1]][cell[2]] = WHITE})]

updateStatusMessageSwapped(st) ==
    [st EXCEPT !.statusMessage =
        IF st.isGameOver
        THEN (IF st.blackScore > st.whiteScore THEN "White wins!"
              ELSE IF st.whiteScore > st.blackScore THEN "Black wins!"
              ELSE "It's a tie!")
        ELSE IF st.isComputerThinking THEN "Computer is thinking..."
        ELSE IF st.currentPlayer = st.playerDisc THEN "Your turn"
        ELSE "Computer's turn"]

\* the texts are those of the source without their trailing emoji
updateStatusMessage(st) ==
    [st EXCEPT !.statusMessage =
        IF st.isGameOver
        THEN (IF st.blackScore > st.whiteScore THEN "Black wins!"
              ELSE IF st.whiteScore > st.blackScore THEN "White wins!"
              ELSE "It's a tie!")
        ELSE IF st.isComputerThinking THEN "Computer is thinking..."
        ELSE IF st.currentPlayer = st.playerDisc THEN "Your turn"
        ELSE "Computer's turn"]

saveGameState(st) ==
    [st EXCEPT !.saved =
        << [board |-> st.board, currentPlayer |-> st.currentPlayer,
            moveCounter |-> st.moveCounter, lastMove |-> st.lastMove,
            playerDisc |-> st.playerDisc, computerDisc |-> st.computerDisc] >>]

setTimeout(st, timer) == [st EXCEPT !.timers = Append(@, timer)]

\* gameState.board is about to be assigned another object: the callbacks
\* that captured the live board keep the old object
DetachLive(st) ==
    IF \E i \in 1 .. Len(st.timers) : st.timers[i].kind = "think" /\ st.timers[i].ref = 0
    THEN [st EXCEPT
            !.detached = Append(@, st.board),
            !.timers = [i \in 1 .. Len(st.timers) |->
                          IF st.timers[i].kind = "think" /\ st.timers[i].ref = 0
                          THEN [st.timers[i] EXCEPT !.ref = Len(st.detached) + 1]
                          ELSE st.timers[i]]]
    ELSE st

\* drops the detached boards no pending callback holds any more
Collect(st) ==
    LET used == {st.timers[i].ref : i \in 1 .. Len(st.timers)}
        kept == SelectSeq([k \in 1 .. Len(st.detached) |-> k], LAMBDA k : k \in used)
        NewRef(k) == IF k = 0 THEN 0
                     ELSE Cardinality({j \in 1 .. Len(kept) : kept[j] <= k})
    IN  [st EXCEPT
            !.detached = [j \in 1 .. Len(kept) |-> st.detached[kept[j]]],
            !.timers = [i \in 1 .. Len(st.timers) |->
                          [st.timers[i] EXCEPT !.ref = NewRef(@)]]]

checkGameStatePlayerOnly(st) ==
    LET playerMoves == getValidMoves(st.board, st.playerDisc)
        computerMoves == getValidMoves(st.board, st.computerDisc)
        entry == [st EXCEPT !.check = [ran |-> TRUE, currentPlayer |-> st.currentPlayer,
                                       isGameOver |-> st.isGameOver, scheduled |-> 0]]
    IN  IF Len(playerMoves) = 0
        THEN updateStatusMessage([entry EXCEPT !.isGameOver = TRUE])
        ELSE IF st.currentPlayer = st.computerDisc /\ Len(computerMoves) = 0
        THEN updateStatusMessage([entry EXCEPT !.currentPlayer = st.playerDisc])
        ELSE entry

checkGameStateNoPass(st) ==
    LET playerMoves == getValidMoves(st.board, st.playerDisc)
        computerMoves == getValidMoves(st.board, st.computerDisc)
        entry == [st EXCEPT !.check = [ran |-> TRUE, currentPlayer |-> st.currentPlayer,
                                       isGameOver |-> st.isGameOver, scheduled |-> 0]]
    IN  IF Len(playerMoves) = 0 /\ Len(computerMoves) = 0
        THEN updateStatusMessage([entry EXCEPT !.isGameOver = TRUE])
        ELSE entry

checkGameState(st) ==
    LET playerMoves == getValidMoves(st.board, st.playerDisc)
        computerMoves == getValidMoves(st.board, st.computerDisc)
        entry == [st EXCEPT !.check = [ran |-> TRUE, currentPlayer |-> st.currentPlayer,
                                       isGameOver |-> st.isGameOver, scheduled |-> 0]]
    IN  IF Len(playerMoves) = 0 /\ Len(computerMoves) = 0
        THEN updateStatusMessage([entry EXCEPT !.isGameOver = TRUE])
        ELSE IF st.currentPlayer = st.playerDisc /\ Len(playerMoves) = 0
        THEN setTimeout(updateStatusMessage(
                            [entry EXCEPT !.currentPlayer = st.computerDisc,
                                          !.check.scheduled = 1]),
                        MoveTimer)
        ELSE IF st.currentPlayer = st.computerDisc /\ Len(computerMoves) = 0
        THEN updateStatusMessage([entry EXCEPT !.currentPlayer = st.playerDisc])
        ELSE entry

saveToHistoryUnbounded(st) ==
    LET state == [board |-> st.board, currentPlayer |-> st.currentPlayer,
                  lastMove |-> st.lastMove, moveCounter |-> st.moveCounter]
    IN  [st EXCEPT !.moveHistory = Append(st.moveHistory, state)]

saveToHistory(st) ==
    LET state == [board |-> st.board, currentPlayer |-> st.currentPlayer,
                  lastMove |-> st.lastMove, moveCounter |-> st.moveCounter]
        pushed == Append(st.moveHistory, state)
    IN  [st EXCEPT !.moveHistory =
            IF Len(pushed) > HistoryLimit THEN Tail(pushed) ELSE pushed]

initializeBoardKeepsThinking(st0) ==
    LET st == DetachLive(st0)
    IN  saveGameState(updateStatusMessage(
            [st EXCEPT !.board = StartBoard,
                       !.currentPlayer = BLACK,
                       !.isGameOver = FALSE,
                       !.playerDisc = BLACK,
                       !.computerDisc = WHITE,
                       !.moveHistory = <<>>,
                       !.moveCounter = 0,
                       !.lastMove = Null]))

initializeBoardSameDisc(st0) ==
    LET st == DetachLive(st0)
    IN  saveGameState(updateStatusMessage(
            [st EXCEPT !.board = StartBoard,
                       !.currentPlayer = BLACK,
                       !.isGameOver = FALSE,
                       !.playerDisc = BLACK,
                       !.computerDisc = BLACK,
                       !.isComputerThinking = FALSE,
                       !.moveHistory = <<>>,
                       !.moveCounter = 0,
                       !.lastMove = Null]))

initializeBoard(st0) ==
    LET st == DetachLive(st0)
    IN  saveGameState(updateStatusMessage(
            [st EXCEPT !.board = StartBoard,
                       !.currentPlayer = BLACK,
                       !.isGameOver = FALSE,
                       !.playerDisc = BLACK,
                       !.computerDisc = WHITE,
                       !.isComputerThinking = FALSE,
                       !.moveHistory = <<>>,
                       !.moveCounter = 0,
                       !.lastMove = Null]))

restartGame(st) == updateScores(initializeBoard(st))

handleCellClickUnchecked(st, row, col) ==
    IF st.currentPlayer # st.playerDisc \/ st.isGameOver \/ st.isComputerThinking
    THEN st
    ELSE LET s1 == saveToHistory(st)
             s2 == [s1 EXCEPT !.board = makeMove(s1.board, row, col, st.currentPlayer),
                              !.lastMove = <<row, col>>,
                              !.moveCounter = @ + 1]
             s3 == updateScores(s2)
             s4 == updateStatusMessage([s3 EXCEPT !.currentPlayer = st.computerDisc])
             s5 == saveGameState(checkGameState(s4))
         IN  IF ~s5.isGameOver /\ s5.currentPlayer = st.computerDisc
             THEN setTimeout(s5, MoveTimer) ELSE s5

handleCellClickUnguarded(st, row, col) ==
    IF isValidMove(st.board, row, col, st.currentPlayer)
    THEN LET s1 == saveToHistory(st)
             s2 == [s1 EXCEPT !.board = makeMove(s1.board, row, col, st.currentPlayer),
                              !.lastMove = <<row, col>>,
                              !.moveCounter = @ + 1]
             s3 == updateScores(s2)
             s4 == updateStatusMessage([s3 EXCEPT !.currentPlayer = st.computerDisc])
             s5 == saveGameState(checkGameState(s4))
         IN  IF ~s5.isGameOver /\ s5.currentPlayer = st.computerDisc
             THEN setTimeout(s5, MoveTimer) ELSE s5
    ELSE st

handleCellClickNoSchedule(st, row, col) ==
    IF st.currentPlayer # st.playerDisc \/ st.isGameOver \/ st.isComputerThinking
    THEN st
    ELSE IF isValidMove(st.board, row, col, st.currentPlayer)
    THEN LET s1 == saveToHistory(st)
             s2 == [s1 EXCEPT !.board = makeMove(s1.board, row, col, st.currentPlayer),
                              !.lastMove = <<row, col>>,
                              !.moveCounter = @ + 1]
             s3 == updateScores(s2)
             s4 == updateStatusMessage([s3 EXCEPT !.currentPlayer = st.computerDisc])
         IN  saveGameState(checkGameState(s4))
    ELSE st

handleCellClick(st, row, col) ==
    IF st.currentPlayer # st.playerDisc \/ st.isGameOver \/ st.isComputerThinking
    THEN st
    ELSE IF isValidMove(st.board, row, col, st.currentPlayer)
    THEN LET s1 == saveToHistory(st)
             s2 == [s1 EXCEPT !.board = makeMove(s1.board, row, col, st.currentPlayer),
                              !.lastMove = <<row, col>>,
                              !.moveCounter = @ + 1]
             s3 == updateScores(s2)
             s4 == updateStatusMessage([s3 EXCEPT !.currentPlayer = st.computerDisc])
             s5 == saveGameState(checkGameState(s4))
         IN  IF ~s5.isGameOver /\ s5.currentPlayer = st.computerDisc
             THEN setTimeout(s5, MoveTimer) ELSE s5
    ELSE st

\* the synchronous part of makeComputerMove
makeComputerMove(st) ==
    IF st.isGameOver \/ st.currentPlayer # st.computerDisc
    THEN st
    ELSE setTimeout(updateStatusMessage([st EXCEPT !.isComputerThinking = TRUE]),
                    ThinkTimer(st))

\* Math.random() is drawn from the RandomLevels values k / RandomLevels
RandomLevels == 1
RandomIndexes(n) == {(k * n) \div RandomLevels : k \in 0 .. (RandomLevels - 1)}

\* difficultyStrategies[difficulty] || difficultyStrategies.default, applied
\* as the thinking callback applies it: makeHardMove reads gameState.board
StrategyMoves(st, value, validMoves) ==
    CASE value = "easy" ->
           {makeEasyMove(validMoves, randomIndex) : randomIndex \in RandomIndexes(Len(validMoves))}
      [] value = "hard" -> {makeHardMove(validMoves, st.board, st.computerDisc)}
      [] OTHER -> {makeMediumMove(validMoves)}

CapturedBoard(st, t) == IF t.ref = 0 THEN st.board ELSE st.detached[t.ref]

thinkingCallbackCountsPass(st, t, move) ==
    LET capturedBoard == CapturedBoard(st, t)
        validMoves == getValidMoves(capturedBoard, t.computerDisc)
    IN  IF Len(validMoves) = 0
        THEN checkGameState(updateStatusMessage(
                 [st EXCEPT !.currentPlayer = t.playerDisc,
                            !.isComputerThinking = FALSE,
                            !.moveCounter = @ + 1]))
        ELSE LET moved == makeMove(capturedBoard, move[1], move[2], t.computerDisc)
                 s1 == IF t.ref = 0 THEN [st EXCEPT !.board = moved]
                       ELSE [st EXCEPT !.detached[t.ref] = moved]
                 s2 == [s1 EXCEPT !.lastMove = move, !.moveCounter = @ + 1]
                 s3 == updateScores(s2)
                 s4 == updateStatusMessage(
                           [s3 EXCEPT !.currentPlayer = t.playerDisc,
                                      !.isComputerThinking = FALSE])
             IN  saveGameState(checkGameState(s4))

\* the callback makeComputerMove schedules, t being its closure and move
\* the strategy's answer
thinkingCallback(st, t, move) ==
    LET capturedBoard == CapturedBoard(st, t)
        validMoves == getValidMoves(capturedBoard, t.computerDisc)
    IN  IF Len(validMoves) = 0
        THEN checkGameState(updateStatusMessage(
                 [st EXCEPT !.currentPlayer = t.playerDisc,
                            !.isComputerThinking = FALSE]))
        ELSE LET moved == makeMove(capturedBoard, move[1], move[2], t.computerDisc)
                 s1 == IF t.ref = 0 THEN [st EXCEPT !.board = moved]
                       ELSE [st EXCEPT !.detached[t.ref] = moved]
                 s2 == [s1 EXCEPT !.lastMove = move, !.moveCounter = @ + 1]
                 s3 == updateScores(s2)
                 s4 == updateStatusMessage(
                           [s3 EXCEPT !.currentPlayer = t.playerDisc,
                                      !.isComputerThinking = FALSE])
             IN  saveGameState(checkGameState(s4))

undoLastMoveKeepsLastMove(st0) ==
    IF Len(st0.moveHistory) = 0 \/ st0.isComputerThinking \/ st0.isGameOver
    THEN st0
    ELSE LET st == DetachLive(st0)
             lastState == st.moveHistory[Len(st.moveHistory)]
             s1 == [st EXCEPT !.moveHistory = SubSeq(@, 1, Len(@) - 1),
                              !.board = lastState.board,
                              !.currentPlayer = lastState.currentPlayer,
                              !.moveCounter = lastState.moveCounter]
         IN  saveGameState(updateStatusMessage(updateScores(s1)))

undoLastMoveAfterEnd(st0) ==
    IF Len(st0.moveHistory) = 0 \/ st0.isComputerThinking
    THEN st0
    ELSE LET st == DetachLive(st0)
             lastState == st.moveHistory[Len(st.moveHistory)]
             s1 == [st EXCEPT !.moveHistory = SubSeq(@, 1, Len(@) - 1),
                              !.board = lastState.board,
                              !.currentPlayer = lastState.currentPlayer,
                              !.lastMove = lastState.lastMove,
                              !.moveCounter = lastState.moveCounter]
         IN  saveGameState(updateStatusMessage(updateScores(s1)))

undoLastMove(st0) ==
    IF Len(st0.moveHistory) = 0 \/ st0.isComputerThinking \/ st0.isGameOver
    THEN st0
    ELSE LET st == DetachLive(st0)
             lastState == st.moveHistory[Len(st.moveHistory)]
             s1 == [st EXCEPT !.moveHistory = SubSeq(@, 1, Len(@) - 1),
                              !.board = lastState.board,
                              !.currentPlayer = lastState.currentPlayer,
                              !.lastMove = lastState.lastMove,
                              !.moveCounter = lastState.moveCounter]
         IN  saveGameState(updateStatusMessage(updateScores(s1)))

\* the state a freshly loaded page starts from: the gameState literal and
\* the page's markup
PageState(storage) ==
    [board |-> <<>>, currentPlayer |-> BLACK, isGameOver |-> FALSE,
     playerDisc |-> BLACK, computerDisc |-> WHITE,
     isComputerThinking |-> FALSE, moveHistory |-> <<>>,
     moveCounter |-> 0, lastMove |-> Null,
     difficulty |-> "medium", blackScore |-> 2, whiteScore |-> 2,
     statusMessage |-> "Your turn",
     saved |-> storage, timers |-> <<>>, detached |-> <<>>,
     check |-> NoCheck]

loadGameState(st) ==
    LET state == st.saved[1]
    IN  [st EXCEPT !.board = state.board,
                   !.currentPlayer = state.currentPlayer,
                   !.moveCounter = state.moveCounter,
                   !.lastMove = state.lastMove,
                   !.playerDisc = state.playerDisc,
                   !.computerDisc = state.computerDisc]

initGame(storage) ==
    LET st == PageState(storage)
    IN  updateScores(IF Len(storage) > 0 THEN loadGameState(st)
                     ELSE initializeBoard(st))

\* ------------------------------------------------------------------------
\* Games saved by an earlier session
\* ------------------------------------------------------------------------
\* the board after the listed moves <<row, col, player>>, played from the
\* start position (every listed move is legal for its mover)
RECURSIVE Replay(_, _, _, _)
Replay(b, moves, first, last_) ==
    IF first > last_ THEN b
    ELSE IF first = last_
    THEN makeMove(b, moves[first][1], moves[first][2], moves[first][3])
    ELSE LET mid == (first + last_) \div 2
         IN  CHOOSE final \in
                 {Replay(half, moves, mid + 1, last_) :
                     half \in {Replay(b, moves, first, mid)}} : TRUE

\* what the thinking callback's saveGameState stored after the computer's
\* last listed move
SavedGame(moves) ==
    [board |-> Replay(StartBoard, moves, 1, Len(moves)),
     currentPlayer |-> BLACK,
     moveCounter |-> Len(moves),
     lastMove |-> <<moves[Len(moves)][1], moves[Len(moves)][2]>>,
     playerDisc |-> BLACK,
     computerDisc |-> WHITE]

\* a game with four cells left, (1,7), (4,7), (6,2) and (7,0): Black (1,7)
\* leaves White without a move; after Black (4,7), White (1,7) ends the game
\* with two cells left; after Black (6,2), White (4,7) leaves Black without a
\* move and White (1,7) leaves both sides one
GameFourLeft ==
    << <<2, 3, 1>>, <<2, 2, 2>>, <<2, 1, 1>>, <<4, 2, 2>>, <<5, 5, 1>>, <<2, 4, 2>>,
       <<5, 3, 1>>, <<5, 4, 2>>, <<1, 5, 1>>, <<1, 1, 2>>, <<6, 5, 1>>, <<1, 2, 2>>,
       <<1, 3, 1>>, <<6, 6, 2>>, <<4, 1, 1>>, <<3, 1, 2>>, <<0, 0, 1>>, <<3, 2, 2>>,
       <<4, 0, 1>>, <<1, 4, 2>>, <<1, 0, 1>>, <<5, 0, 2>>, <<6, 0, 1>>, <<0, 1, 2>>,
       <<6, 7, 1>>, <<7, 6, 2>>, <<5, 6, 1>>, <<0, 6, 2>>, <<0, 4, 1>>, <<7, 7, 2>>,
       <<3, 5, 1>>, <<0, 3, 2>>, <<0, 2, 1>>, <<6, 4, 2>>, <<6, 3, 1>>, <<0, 5, 2>>,
       <<3, 0, 1>>, <<2, 5, 2>>, <<2, 6, 1>>, <<7, 4, 2>>, <<5, 1, 1>>, <<4, 5, 2>>,
       <<4, 6, 1>>, <<6, 1, 2>>, <<7, 2, 1>>, <<5, 7, 2>>, <<1, 6, 1>>, <<3, 6, 2>>,
       <<0, 7, 1>>, <<7, 3, 2>>, <<3, 7, 1>>, <<7, 5, 2>>, <<2, 0, 1>>, <<2, 7, 2>>,
       <<5, 2, 1>>, <<7, 1, 2>> >>

\* a game with two cells left, (6,0) and (7,0): Black (7,0) ends the game
\* with a cell left, after Black (6,0) White (7,0) fills the board
GameTwoLeft ==
    << <<2, 3, 1>>, <<2, 4, 2>>, <<2, 5, 1>>, <<2, 2, 2>>, <<4, 5, 1>>, <<2, 6, 2>>,
       <<1, 1, 1>>, <<5, 4, 2>>, <<3, 5, 1>>, <<5, 3, 2>>, <<1, 5, 1>>, <<0, 0, 2>>,
       <<1, 2, 1>>, <<1, 6, 2>>, <<1, 0, 1>>, <<1, 4, 2>>, <<5, 5, 1>>, <<2, 0, 2>>,
       <<6, 2, 1>>, <<6, 3, 2>>, <<0, 5, 1>>, <<6, 6, 2>>, <<6, 5, 1>>, <<6, 4, 2>>,
       <<6, 7, 1>>, <<3, 6, 2>>, <<2, 7, 1>>, <<7, 6, 2>>, <<3, 2, 1>>, <<7, 5, 2>>,
       <<4, 2, 1>>, <<5, 6, 2>>, <<7, 7, 1>>, <<1, 7, 2>>, <<7, 4, 1>>, <<1, 3, 2>>,
       <<0, 1, 1>>, <<2, 1, 2>>, <<0, 3, 1>>, <<0, 2, 2>>, <<0, 7, 1>>, <<3, 7, 2>>,
       <<3, 1, 1>>, <<4, 1, 2>>, <<4, 7, 1>>, <<7, 3, 2>>, <<3, 0, 1>>, <<0, 6, 2>>,
       <<4, 0, 1>>, <<0, 4, 2>>, <<5, 2, 1>>, <<7, 2, 2>>, <<7, 1, 1>>, <<5, 7, 2>>,
       <<4, 6, 1>>, <<5, 0, 2>>, <<5, 1, 1>>, <<6, 1, 2>> >>

SavedGames == {SavedGame(GameFourLeft), SavedGame(GameTwoLeft)}

\* localStorage at page load: empty, or a game saved by an earlier session
Storages == {<<>>} \cup {<<g>> : g \in SavedGames}

\* ------------------------------------------------------------------------
\* Game controller: actions
\* ------------------------------------------------------------------------
NoCall == <<>>
NoResult == <<>>

Set(st, lastRec) ==
    /\ board' = st.board
    /\ currentPlayer' = st.currentPlayer
    /\ isGameOver' = st.isGameOver
    /\ playerDisc' = st.playerDisc
    /\ computerDisc' = st.computerDisc
    /\ isComputerThinking' = st.isComputerThinking
    /\ moveHistory' = st.moveHistory
    /\ moveCounter' = st.moveCounter
    /\ lastMove' = st.lastMove
    /\ difficulty' = st.difficulty
    /\ blackScore' = st.blackScore
    /\ whiteScore' = st.whiteScore
    /\ statusMessage' = st.statusMessage
    /\ saved' = st.saved
    /\ timers' = st.timers
    /\ detached' = st.detached
    /\ last' = lastRec

\* the record of a handler run: which handler, what it did, what the
\* checkGameState it called saw and did, and the state it started from
Log(op, outcome, st) ==
    [op |-> op, outcome |-> outcome, check |-> st.check]

InitFrom(storage) ==
    LET st == initGame(storage)
    IN  /\ board = st.board
        /\ currentPlayer = st.currentPlayer
        /\ isGameOver = st.isGameOver
        /\ playerDisc = st.playerDisc
        /\ computerDisc = st.computerDisc
        /\ isComputerThinking = st.isComputerThinking
        /\ moveHistory = st.moveHistory
        /\ moveCounter = st.moveCounter
        /\ lastMove = st.lastMove
        /\ difficulty = st.difficulty
        /\ blackScore = st.blackScore
        /\ whiteScore = st.whiteScore
        /\ statusMessage = st.statusMessage
        /\ saved = st.saved
        /\ timers = st.timers
        /\ detached = st.detached
        /\ clicks = 0
        /\ last = Log("initGame", IF Len(storage) > 0 THEN "loaded" ELSE "new", st)

Init ==
    /\ \E storage \in Storages : InitFrom(storage)
    /\ call = NoCall
    /\ result = NoResult
    /\ pc = "idle"

\* the first test of handleCellClick and of handleKeyboardInput
InputRefused == currentPlayer # playerDisc \/ isGameOver \/ isComputerThinking

\* the next move of the player is within the bounds
Endgame == Cardinality({cell \in Cells : board[cell[1]][cell[2]] = EMPTY}) <= EndgameCells
Followed == clicks < MaxClicks /\ (clicks = 0 \/ Endgame)

\* a click on cell (row, col) that handleCellClick accepts; a click it
\* returns from early changes nothing
HandleCellClick(row, col) ==
    /\ ~InputRefused
    /\ isValidMove(board, row, col, currentPlayer)
    /\ Followed
    /\ LET st == handleCellClick(St, row, col)
       IN  Set(st, Log("handleCellClick", <<row, col>>, st))
    /\ clicks' = clicks + 1
    /\ UNCHANGED ruleVars

\* the next setTimeout(makeComputerMove, 500) to expire: timers of one delay
\* expire in the order they were set
FirstMoveTimer(i) ==
    /\ i \in 1 .. Len(timers)
    /\ timers[i].kind = "move"
    /\ \A j \in 1 .. (i - 1) : timers[j].kind # "move"

Remove(seq, i) == SubSeq(seq, 1, i - 1) \o SubSeq(seq, i + 1, Len(seq))

\* a 500 ms timer expires and runs makeComputerMove
FireMoveTimer ==
    \E i \in 1 .. Len(timers) :
        /\ FirstMoveTimer(i)
        /\ LET st0 == [St EXCEPT !.timers = Remove(timers, i)]
               st == makeComputerMove(st0)
           IN  Set(st, Log("makeComputerMove",
                           IF st = st0 THEN "ignored" ELSE "thinking", st))
        /\ UNCHANGED <<clicks, ruleVars>>

\* a 1000 ms timer expires and runs the thinking callback; it cannot expire
\* before a timer that was set earlier (of the same or of the shorter delay)
FireThinkTimer ==
    /\ Len(timers) > 0
    /\ timers[1].kind = "think"
    /\ LET t == timers[1]
           st0 == [St EXCEPT !.timers = Tail(timers)]
           validMoves == getValidMoves(CapturedBoard(st0, t), t.computerDisc)
       IN  IF Len(validMoves) = 0
           THEN LET st == thinkingCallback(st0, t, Null)
                    done == Collect(st)
                IN  Set(done, Log("thinking", Null, st))
           ELSE \E move \in StrategyMoves(st0, difficulty, validMoves) :
                    LET st == thinkingCallback(st0, t, move)
                        done == Collect(st)
                    IN  Set(done, Log("thinking", move, st))
    /\ UNCHANGED <<clicks, ruleVars>>

\* the values the user selects in the difficulty selector
Difficulties == {"easy", "medium"}

\* the change listener of the difficulty selector
DifficultyChange(value) ==
    /\ value # difficulty
    /\ LET st0 == [St EXCEPT !.difficulty = value]
           runs == st0.currentPlayer = st0.computerDisc /\ ~st0.isGameOver
           st == IF runs THEN makeComputerMove(st0) ELSE st0
       IN  /\ runs => Len(timers) < MaxTimers
           /\ Set(st, Log("difficultyChange",
                          IF runs THEN "thinking" ELSE "selected", st))
    /\ UNCHANGED <<clicks, ruleVars>>

\* the Undo button, when undoLastMove does not return early
UndoLastMove ==
    /\ Len(moveHistory) > 0
    /\ ~isComputerThinking
    /\ ~isGameOver
    /\ LET st == undoLastMove(St)
           done == Collect(st)
       IN  Set(done, Log("undoLastMove", "undone", st))
    /\ UNCHANGED <<clicks, ruleVars>>

\* the Restart button
RestartGame ==
    /\ LET st == restartGame(St)
           done == Collect(st)
       IN  Set(done, Log("restartGame", "restarted", st))
    /\ UNCHANGED <<clicks, ruleVars>>

\* the page is loaded again: its timers are gone and initGame runs on what
\* localStorage holds
Reload ==
    /\ LET st == initGame(saved)
       IN  Set(st, Log("initGame", "loaded", st))
    /\ UNCHANGED <<clicks, ruleVars>>

\* the keys handleKeyboardInput acts on; the arrow keys move the focus only
Keys == {"Enter", "CtrlU", "CtrlR"}

\* where the focus is when a key goes down: on no cell, or on the cell (2,3)
Focus == {Null, <<2, 3>>}

\* the switch of handleKeyboardInput, cell being the focused cell
KeySwitch(st, key, cell) ==
    CASE key = "Enter" -> handleCellClick(st, cell[1], cell[2])
      [] key = "CtrlU" -> undoLastMove(st)
      [] key = "CtrlR" -> restartGame(st)
      [] OTHER -> st

\* handleKeyboardInput on a keydown event, focused being the cell that has
\* the focus, or Null
handleKeyboardInput(st, key, focused) ==
    IF st.currentPlayer # st.playerDisc \/ st.isGameOver \/ st.isComputerThinking
    THEN st
    ELSE LET validMoves == getValidMoves(st.board, st.currentPlayer)
             focusedCell == IF focused # Null THEN focused
                            ELSE IF Len(validMoves) > 0 THEN validMoves[1] ELSE Null
         IN  IF focusedCell = Null THEN st
             ELSE CHOOSE out \in {KeySwitch(st, key, cell) : cell \in {focusedCell}} : TRUE

\* a keydown event that handleKeyboardInput acts on
HandleKeyboardInput(key, focused) ==
    /\ ~InputRefused
    /\ key = "Enter" => Followed
    /\ \E st0 \in {St} :
          LET st == handleKeyboardInput(st0, key, focused)
              done == Collect(st)
          IN  /\ key = "CtrlR" \/ st # st0
              /\ Set(done, Log("handleKeyboardInput", key, st))
    /\ clicks' = IF key = "Enter" THEN clicks + 1 ELSE clicks
    /\ UNCHANGED ruleVars

\* the events the user causes
UserInput ==
    \/ \E cell \in Cells : HandleCellClick(cell[1], cell[2])
    \/ \E key \in Keys, focused \in Focus : HandleKeyboardInput(key, focused)
    \/ \E value \in Difficulties : DifficultyChange(value)
    \/ UndoLastMove
    \/ RestartGame
    \/ Reload

Next ==
    \/ UserInput
    \/ FireMoveTimer
    \/ FireThinkTimer

Spec == Init /\ [][Next]_vars

\* the user waits for the pending callbacks before the next input, and the
\* browser runs every callback whose delay has passed
NextLive ==
    \/ timers = <<>> /\ UserInput
    \/ FireMoveTimer
    \/ FireThinkTimer

\* FireThinkTimer is enabled exactly when the first pending callback is a
\* thinking callback, and running it changes timers
ThinkReady == Len(timers) > 0 /\ timers[1].kind = "think"

\* WF_vars(FireMoveTimer) /\ WF_vars(FireThinkTimer), the second with its
\* ENABLED written as ThinkReady
Fairness ==
    /\ WF_vars(FireMoveTimer)
    /\ []<>(~ThinkReady) \/ []<><<FireThinkTimer>>_vars

SpecLive == Init /\ [][NextLive]_vars /\ Fairness

\* one session of the page: the page is not loaded again
UserInputSession ==
    \/ \E cell \in Cells : HandleCellClick(cell[1], cell[2])
    \/ \E key \in Keys, focused \in Focus : HandleKeyboardInput(key, focused)
    \/ \E value \in Difficulties : DifficultyChange(value)
    \/ UndoLastMove
    \/ RestartGame

NextSession ==
    \/ UserInputSession
    \/ FireMoveTimer
    \/ FireThinkTimer

SpecSession == Init /\ [][NextSession]_vars

\* A long game: from a new game the player clicks, whenever it is their
\* turn, the first cell getValidMoves lists, the computer answers at the
\* default difficulty, and the player may undo whenever the computer has
\* answered and no timer is pending; the player makes at most MaxMoves moves
MaxMoves == 12

InitNewGame ==
    /\ InitFrom(<<>>)
    /\ call = NoCall
    /\ result = NoResult
    /\ pc = "idle"

HandleCellClickFirstValid ==
    /\ ~InputRefused
    /\ clicks < MaxMoves
    /\ LET validMoves == getValidMoves(board, currentPlayer)
       IN  /\ Len(validMoves) > 0
           /\ LET st == handleCellClick(St, validMoves[1][1], validMoves[1][2])
              IN  Set(st, Log("handleCellClick", validMoves[1], st))
    /\ clicks' = clicks + 1
    /\ UNCHANGED ruleVars

UndoAfterReply ==
    /\ timers = <<>>
    /\ UndoLastMove

NextLongGame ==
    \/ HandleCellClickFirstValid
    \/ FireMoveTimer
    \/ FireThinkTimer
    \/ UndoAfterReply

SpecLongGame == InitNewGame /\ [][NextLongGame]_vars

\* ------------------------------------------------------------------------
\* Rule engine on its own: boards handed to countFlips, isValidMove,
\* makeMove, countDiscs and getValidMoves
\* ------------------------------------------------------------------------
\* the longest run of opponent discs laid out from a cell
MaxRun == 6

\* the n-th cell from focus in direction d
RayCell(focus, d, n) == <<focus[1] + n * d[1], focus[2] + n * d[2]>>

\* what ends the run laid out in direction i: a disc of the mover, an empty
\* cell, or one or the other by direction
Ends == {"own", "empty", "mixed"}
EndOfRun(end, i, player) ==
    IF end = "own" \/ (end = "mixed" /\ i % 2 = 1) THEN player ELSE EMPTY

\* a board with `target` on the focus cell and, in each direction of dirs,
\* k opponent discs followed by the end of the run, as far as the board
\* reaches
RayBoard(focus, player, dirs, k, end, target) ==
    [r \in Idx |-> [c \in Idx |->
        IF <<r, c>> = focus THEN target
        ELSE IF \E i \in dirs, n \in 1 .. k : RayCell(focus, DIRECTIONS[i], n) = <<r, c>>
        THEN Other(player)
        ELSE IF \E i \in dirs : /\ RayCell(focus, DIRECTIONS[i], k + 1) = <<r, c>>
                                /\ EndOfRun(end, i, player) = player
        THEN player
        ELSE EMPTY]]

AllDirections == 1 .. Len(DIRECTIONS)
RayDirections == {{i} : i \in AllDirections} \cup {AllDirections}

\* src/tests/test-ai.js:432-458: rows 0-3 Black, rows 4-7 White, (3,7) and
\* (4,0) empty: neither colour has a move
NoMovesBoard ==
    [r \in Idx |-> [c \in Idx |->
        IF <<r, c>> \in {<<3, 7>>, <<4, 0>>} THEN EMPTY
        ELSE IF r < 4 THEN BLACK ELSE WHITE]]

PlayedBoards == {StartBoard, NoMovesBoard} \cup {g.board : g \in SavedGames}

\* the calls on one cell
CellCalls(focus) ==
    {[kind |-> "cell", board |-> RayBoard(focus, player, dirs, k, end, EMPTY),
      row |-> focus[1], col |-> focus[2], player |-> player] :
        player \in Discs, dirs \in RayDirections, k \in 0 .. MaxRun, end \in Ends}
    \cup
    {[kind |-> "cell", board |-> RayBoard(focus, player, AllDirections, k, end, target),
      row |-> focus[1], col |-> focus[2], player |-> player] :
        player \in Discs, k \in 0 .. MaxRun, end \in Ends, target \in Discs}
    \cup
    {[kind |-> "cell", board |-> b, row |-> focus[1], col |-> focus[2],
      player |-> player] :
        b \in PlayedBoards, player \in Discs}

\* the calls on a whole board
BoardCalls(focus) ==
    {[kind |-> "board", board |-> RayBoard(focus, player, AllDirections, k, end, EMPTY),
      row |-> focus[1], col |-> focus[2], player |-> player] :
        player \in Discs, k \in 0 .. MaxRun, end \in Ends}
    \cup
    {[kind |-> "board", board |-> b, row |-> 0, col |-> 0, player |-> player] :
        b \in PlayedBoards, player \in Discs}

InitRules ==
    /\ InitFrom(<<>>)
    /\ \E focus \in Cells : call \in CellCalls(focus) \cup BoardCalls(focus)
    /\ result = NoResult
    /\ pc = IF call.kind = "cell" THEN "countFlips" ELSE "getValidMoves"

CallCountFlips ==
    /\ pc = "countFlips"
    /\ result' = [flips |-> countFlips(call.board, call.row, call.col, call.player)]
    /\ pc' = "isValidMove"
    /\ UNCHANGED <<ctlVars, call>>

CallIsValidMove ==
    /\ pc = "isValidMove"
    /\ result' = [flips |-> result.flips,
                  valid |-> isValidMove(call.board, call.row, call.col, call.player)]
    /\ pc' = "makeMove"
    /\ UNCHANGED <<ctlVars, call>>

CallMakeMove ==
    /\ pc = "makeMove"
    /\ result' = [flips |-> result.flips, valid |-> result.valid,
                  board |-> makeMove(call.board, call.row, call.col, call.player)]
    /\ pc' = "countDiscs"
    /\ UNCHANGED <<ctlVars, call>>

CallCountDiscs ==
    /\ pc = "countDiscs"
    /\ result' = [flips |-> result.flips, valid |-> result.valid, board |-> result.board,
                  before |-> countDiscs(call.board), after |-> countDiscs(result.board)]
    /\ pc' = "done"
    /\ UNCHANGED <<ctlVars, call>>

CallGetValidMoves ==
    /\ pc = "getValidMoves"
    /\ result' = [moves |-> getValidMoves(call.board, call.player)]
    /\ pc' = "listed"
    /\ UNCHANGED <<ctlVars, call>>

NextRules ==
    \/ CallCountFlips
    \/ CallIsValidMove
    \/ CallMakeMove
    \/ CallCountDiscs
    \/ CallGetValidMoves

SpecRules == InitRules /\ [][NextRules]_vars

\* ------------------------------------------------------------------------
\* Strategies on their own: legal-move lists handed to makeHardMove,
\* makeMediumMove and makeEasyMove
\* ------------------------------------------------------------------------
\* makeHardMove is run where it searches only on boards with at most
\* SearchCells empty cells; Math.random() returns one of the RandomSteps
\* values random / RandomSteps
SearchCells == 7
RandomSteps == 20

\* the game with four cells left up to its 48th move, continued so that
\* after White cannot answer Black (7,0) and Black plays (3,7), two of
\* White's three moves (2,0), (2,7), (4,7) end the game with the same
\* number of discs
GameTied ==
    << <<2, 3, 1>>, <<2, 2, 2>>, <<2, 1, 1>>, <<4, 2, 2>>, <<5, 5, 1>>, <<2, 4, 2>>,
       <<5, 3, 1>>, <<5, 4, 2>>, <<1, 5, 1>>, <<1, 1, 2>>, <<6, 5, 1>>, <<1, 2, 2>>,
       <<1, 3, 1>>, <<6, 6, 2>>, <<4, 1, 1>>, <<3, 1, 2>>, <<0, 0, 1>>, <<3, 2, 2>>,
       <<4, 0, 1>>, <<1, 4, 2>>, <<1, 0, 1>>, <<5, 0, 2>>, <<6, 0, 1>>, <<0, 1, 2>>,
       <<6, 7, 1>>, <<7, 6, 2>>, <<5, 6, 1>>, <<0, 6, 2>>, <<0, 4, 1>>, <<7, 7, 2>>,
       <<3, 5, 1>>, <<0, 3, 2>>, <<0, 2, 1>>, <<6, 4, 2>>, <<6, 3, 1>>, <<0, 5, 2>>,
       <<3, 0, 1>>, <<2, 5, 2>>, <<2, 6, 1>>, <<7, 4, 2>>, <<5, 1, 1>>, <<4, 5, 2>>,
       <<4, 6, 1>>, <<6, 1, 2>>, <<7, 2, 1>>, <<5, 7, 2>>, <<1, 6, 1>>, <<3, 6, 2>>,
       <<0, 7, 1>>, <<1, 7, 2>>, <<5, 2, 1>>, <<7, 1, 2>>, <<7, 5, 1>>, <<6, 2, 2>>,
       <<7, 0, 1>>, <<3, 7, 1>> >>

Games == {GameFourLeft, GameTwoLeft, GameTied}

\* the board after the first k moves of a game
Prefix(game, k) == Replay(StartBoard, game, 1, k)

Empties(b) == Cardinality({cell \in Cells : b[cell[1]][cell[2]] = EMPTY})

\* the player is to move after the first k moves of a game
PlayerToMove(game, k) ==
    IF k = Len(game) THEN game[k][3] = WHITE ELSE game[k + 1][3] = BLACK

\* the boards the computer can be handed: at every point of the two games
\* where the player is to move, the board after each move the player can
\* make there
StrategyBoards ==
    UNION {UNION {{makeMove(b, cell[1], cell[2], BLACK) :
                      cell \in {c \in Cells : isValidMove(b, c[1], c[2], BLACK)}} :
                  b \in {Prefix(game, k) :
                            k \in {n \in 0 .. Len(game) : PlayerToMove(game, n)}}} :
           game \in Games}

\* the computer's legal moves on those boards, where it has any
StrategyCalls ==
    {call_ \in {[kind |-> "strategy", board |-> b, player |-> WHITE,
                 moves |-> getValidMoves(b, WHITE)] : b \in StrategyBoards} :
        Len(call_.moves) > 0}

\* makeHardMove answers without a search, or searches a late board
Searched(call_) ==
    \/ minimaxCalls(call_.moves) = 0
    \/ Empties(call_.board) <= SearchCells

\* Math.floor(Math.random() * length)
RandomIndex(random, length) == (random * length) \div RandomSteps

InitStrategies ==
    /\ InitFrom(<<>>)
    /\ call \in StrategyCalls
    /\ result = [moves |-> call.moves]
    /\ pc = IF Searched(call) THEN "makeHardMove" ELSE "makeMediumMove"

CallMakeHardMove ==
    /\ pc = "makeHardMove"
    /\ result' = [moves |-> result.moves,
                  hard |-> makeHardMove(call.moves, call.board, call.player),
                  searches |-> minimaxCalls(call.moves)]
    /\ pc' = "makeMediumMove"
    /\ UNCHANGED <<ctlVars, call>>

CallMakeMediumMove ==
    /\ pc = "makeMediumMove"
    /\ result' = [medium |-> makeMediumMove(call.moves)] @@ result
    /\ pc' = "makeEasyMove"
    /\ UNCHANGED <<ctlVars, call>>

CallMakeEasyMove ==
    /\ pc = "makeEasyMove"
    /\ \E random \in 0 .. (RandomSteps - 1) :
          result' = [easy |-> makeEasyMove(call.moves, RandomIndex(random, Len(call.moves))),
                     random |-> random] @@ result
    /\ pc' = "chosen"
    /\ UNCHANGED <<ctlVars, call>>

NextStrategies ==
    \/ CallMakeHardMove
    \/ CallMakeMediumMove
    \/ CallMakeEasyMove

SpecStrategies == InitStrategies /\ [][NextStrategies]_vars

\* ------------------------------------------------------------------------
\* makeHardMove across the game phases: the boards of the games on which
\* the computer has to search and the live board holds 19 discs (the boards
\* it simulates hold 20 or more), 49 discs (the boards it simulates hold 50
\* or more), or 57 or 59 discs
\* ------------------------------------------------------------------------
BoundaryTotals == {19, 49, 57, 59}

PhaseCalls ==
    {call_ \in StrategyCalls :
        /\ countDiscs(call_.board).total \in BoundaryTotals
        /\ minimaxCalls(call_.moves) > 0}

InitPhases ==
    /\ InitFrom(<<>>)
    /\ call \in PhaseCalls
    /\ result = [moves |-> call.moves]
    /\ pc = "makeHardMove"

\* makeHardMove, with the phase and the depth it derives
CallMakeHardMoveSearching ==
    /\ pc = "makeHardMove"
    /\ LET gamePhase == GamePhase(countDiscs(call.board).total)
       IN  result' = [moves |-> result.moves,
                      hard |-> makeHardMove(call.moves, call.board, call.player),
                      gamePhase |-> gamePhase,
                      searchDepth |-> SearchDepth(gamePhase, Len(call.moves))]
    /\ pc' = "searched"
    /\ UNCHANGED <<ctlVars, call>>

NextPhases == CallMakeHardMoveSearching

SpecPhases == InitPhases /\ [][NextPhases]_vars

\* ------------------------------------------------------------------------
\* minimax on its own
\* ------------------------------------------------------------------------
\* minimax is called with depths up to MaxDepth on boards with at most
\* LateCells empty cells
MaxDepth == 3
LateCells == 3

Phases == {"early", "mid", "late"}

\* the late boards the computer is handed and the boards after each of its
\* answers there, and the board of the test suite where nobody can move
SearchBoards ==
    LET handed == {b \in StrategyBoards : Empties(b) <= LateCells}
    IN  handed
        \cup UNION {{makeMove(b, cell[1], cell[2], WHITE) :
                        cell \in {c \in Cells : isValidMove(b, c[1], c[2], WHITE)}} :
                    b \in handed}
        \cup {NoMovesBoard}

\* neither colour has a move
Terminal(b) ==
    Len(getValidMoves(b, BLACK)) = 0 /\ Len(getValidMoves(b, WHITE)) = 0

FullWindow == <<-Infinity, Infinity>>

\* alpha and beta: the window makeHardMove starts with, windows narrowed by
\* scores found earlier in a search, and an empty window
Windows == {FullWindow, <<-Infinity, 0>>, <<0, Infinity>>, <<1000, -1000>>}

\* the mover has no move and the other colour has one
Passes(b, mover) ==
    Len(getValidMoves(b, mover)) = 0 /\ Len(getValidMoves(b, Other(mover))) > 0

\* every window on the boards where nobody can move and on those where the
\* mover has to pass, the full window on the others
SearchCalls ==
    {call_ \in [kind : {"minimax"}, board : SearchBoards, depth : 0 .. MaxDepth,
                window : Windows, isMaximizingPlayer : BOOLEAN,
                maxPlayer : Discs, gamePhase : Phases] :
        \/ Terminal(call_.board)
        \/ Passes(call_.board, IF call_.isMaximizingPlayer THEN call_.maxPlayer
                                ELSE Other(call_.maxPlayer))
        \/ call_.window = FullWindow}

InitSearch ==
    /\ InitFrom(<<>>)
    /\ call \in SearchCalls
    /\ result = NoResult
    /\ pc = "minimax"

CallMinimax ==
    /\ pc = "minimax"
    /\ result' = [value |-> minimax(call.board, call.depth, call.window[1],
                                    call.window[2], call.isMaximizingPlayer,
                                    call.maxPlayer, Other(call.maxPlayer),
                                    call.gamePhase)]
    /\ pc' = "returned"
    /\ UNCHANGED <<ctlVars, call>>

NextSearch == CallMinimax

SpecSearch == InitSearch /\ [][NextSearch]_vars

\* ------------------------------------------------------------------------
\* Properties of the rule engine (checked under SpecRules)
\* ------------------------------------------------------------------------
Target == <<call.row, call.col>>
Moved == pc \in {"countDiscs", "done"}

\* direction d from focus holds len opponent discs and then a disc of player
Terminated(b, focus, d, len, player) ==
    /\ \A j \in 1 .. len :
          LET cell == RayCell(focus, d, j)
          IN  isInBounds(cell[1], cell[2]) /\ b[cell[1]][cell[2]] = Other(player)
    /\ LET cell == RayCell(focus, d, len + 1)
       IN  isInBounds(cell[1], cell[2]) /\ b[cell[1]][cell[2]] = player

\* the opponent discs that player outflanks from focus
Outflanked(b, focus, player) ==
    {RayCell(focus, DIRECTIONS[t[1]], t[3]) :
        t \in {u \in AllDirections \X (1 .. BOARD_SIZE - 2) \X (1 .. BOARD_SIZE - 2) :
                  /\ u[3] <= u[2]
                  /\ Terminated(b, focus, DIRECTIONS[u[1]], u[2], player)}}

\* the cells other than focus on which two boards differ
Changed(b1, b2, focus) ==
    {cell \in Cells : cell # focus /\ b1[cell[1]][cell[2]] # b2[cell[1]][cell[2]]}

LegalitySymmetry ==
    (call # NoCall /\ pc \in {"makeMove", "countDiscs", "done"}) =>
        /\ result.valid = (call.board[call.row][call.col] = EMPTY /\ result.flips > 0)
        /\ call.board[call.row][call.col] # EMPTY => (~result.valid /\ result.flips = 0)

\* an occupied cell with outflanked discs around it, found to be no move
LegalitySymmetryWitness ==
    /\ pc = "makeMove"
    /\ call.board[call.row][call.col] # EMPTY
    /\ Outflanked(call.board, Target, call.player) # {}
    /\ ~result.valid
    /\ result.flips = 0

\* position of a cell in the row-major order
RowMajorIndex(cell) == cell[1] * BOARD_SIZE + cell[2]

\* C4: getValidMoves lists exactly the cells isValidMove accepts, each once,
\* rows top to bottom and columns left to right; on the start board with
\* Black to move the list is (2,3), (3,2), (4,5), (5,4).
MoveGenerationComplete ==
    pc = "listed" =>
        /\ {result.moves[i] : i \in 1 .. Len(result.moves)} =
               {cell \in Cells : isValidMove(call.board, cell[1], cell[2], call.player)}
        /\ \A i, j \in 1 .. Len(result.moves) :
               i < j => RowMajorIndex(result.moves[i]) < RowMajorIndex(result.moves[j])
        /\ (call.board = StartBoard /\ call.player = BLACK) =>
               result.moves = << <<2, 3>>, <<3, 2>>, <<4, 5>>, <<5, 4>> >>

\* the list for Black on the start board
MoveGenerationCompleteWitness ==
    /\ pc = "listed"
    /\ call.board = StartBoard
    /\ call.player = BLACK
    /\ Len(result.moves) = 4

Count(discs, player) == IF player = BLACK THEN discs.black ELSE discs.white

HasMove(b, player) == \E cell \in Cells : isValidMove(b, cell[1], cell[2], player)

Occupied(b) == Cardinality({cell \in Cells : b[cell[1]][cell[2]] # EMPTY})

ClickStep == last'.op = "handleCellClick"

\* the step is a thinking callback that found a move
ReplyStep == last'.op = "thinking" /\ last'.outcome # Null

\* a click has been answered by the handler and the computer is to reply
Awaiting ==
    /\ last.op = "handleCellClick"
    /\ ~isGameOver
    /\ HasMove(board, computerDisc)

\* the computer has replied: its disc is on the board and the turn is the
\* player's, unless the game is over or the player has to pass
Answered ==
    /\ last.op = "thinking"
    /\ last.outcome # Null
    /\ lastMove = last.outcome
    /\ board[lastMove[1]][lastMove[2]] = computerDisc
    /\ ~isComputerThinking
    /\ \/ currentPlayer = playerDisc
       \/ isGameOver
       \/ currentPlayer = computerDisc /\ ~HasMove(board, playerDisc)

\* C8: a click on a valid move puts the player's disc on the cell with its
\* flips, adds 1 to moveCounter and makes the cell lastMove; if the game is
\* then not over and the computer has a legal move, currentPlayer is
\* computerDisc and a makeComputerMove timer is added; every thinking
\* callback that finds a move adds exactly one disc; and when the timers
\* fire and the user waits for the pending callbacks before every input
\* (SpecLive), the computer's reply follows the click.
ClickThenComputerMoves ==
    /\ [][ClickStep =>
             \A focus \in {last'.outcome} :
                 /\ ~InputRefused
                 /\ isValidMove(board, focus[1], focus[2], playerDisc)
                 /\ board'[focus[1]][focus[2]] = playerDisc
                 /\ Changed(board, board', focus) = Outflanked(board, focus, playerDisc)
                 /\ \A cell \in Changed(board, board', focus) :
                       board'[cell[1]][cell[2]] = playerDisc
                 /\ moveCounter' = moveCounter + 1
                 /\ lastMove' = focus
                 /\ (~isGameOver' /\ HasMove(board', computerDisc)) =>
                       /\ currentPlayer' = computerDisc
                       /\ timers' = Append(timers, MoveTimer)]_vars
    /\ [][ReplyStep =>
             /\ Occupied(board') = Occupied(board) + 1
             /\ moveCounter' = moveCounter + 1]_vars
    /\ Awaiting ~> Answered

\* the computer has replied to a click and it is the player's turn again
ClickThenComputerMovesWitness ==
    /\ Answered
    /\ clicks > 0
    /\ currentPlayer = playerDisc
    /\ ~isGameOver
    /\ timers = <<>>

\* the fields of gameState an ignored input leaves alone
Untouched(st, s) ==
    /\ st.board = s.board
    /\ st.currentPlayer = s.currentPlayer
    /\ st.moveCounter = s.moveCounter
    /\ st.lastMove = s.lastMove
    /\ st.moveHistory = s.moveHistory

\* C9: in every state, handleCellClick on a cell that is not a valid move
\* for the player (occupied, or flipping nothing) leaves board,
\* currentPlayer, moveCounter, lastMove, moveHistory and isGameOver as they
\* are and adds no timer: it changes nothing at all.
InvalidClickIgnored ==
    \A s \in {St} : \A cell \in Cells :
        \/ isValidMove(board, cell[1], cell[2], playerDisc)
        \/ LET st == handleCellClick(s, cell[1], cell[2])
           IN  /\ Untouched(st, s)
               /\ st.isGameOver = s.isGameOver
               /\ st.timers = s.timers
               /\ st = s

\* the player is to move after the computer's reply; an occupied cell and an
\* empty cell that flips nothing are clicked to no effect
InvalidClickIgnoredWitness ==
    /\ ~InputRefused
    /\ last.op = "thinking"
    /\ \E cell \in Cells :
          /\ board[cell[1]][cell[2]] # EMPTY
          /\ handleCellClick(St, cell[1], cell[2]) = St
    /\ \E cell \in Cells :
          /\ board[cell[1]][cell[2]] = EMPTY
          /\ countFlips(board, cell[1], cell[2], playerDisc) = 0
          /\ handleCellClick(St, cell[1], cell[2]) = St

\* C10: in every state in which the computer is thinking, or it is the
\* computer's turn, or the game is over, a click on any cell and the Enter
\* key on any focused cell leave board, currentPlayer, moveCounter, lastMove
\* and moveHistory as they are.
BusyRefusal ==
    InputRefused =>
        \A s \in {St} :
            /\ \A cell \in Cells : Untouched(handleCellClick(s, cell[1], cell[2]), s)
            /\ \A focused \in Cells \cup {Null} :
                  Untouched(handleKeyboardInput(s, "Enter", focused), s)

\* the computer is thinking, the player has a legal move on the live board,
\* and the click on it is refused
BusyRefusalWitness ==
    /\ isComputerThinking
    /\ ~isGameOver
    /\ \E cell \in Cells :
          /\ isValidMove(board, cell[1], cell[2], playerDisc)
          /\ Untouched(handleCellClick(St, cell[1], cell[2]), St)
          /\ Untouched(handleKeyboardInput(St, "Enter", cell), St)

\* the thinking callbacks that are pending
Thinking == {i \in 1 .. Len(timers) : timers[i].kind = "think"}

\* C11: at most one thinking callback of makeComputerMove is pending in
\* every state, whatever the order of clicks, undo, restart, difficulty
\* changes and timer firings.
NoOverlappingThinking == Cardinality(Thinking) <= 1

\* the standard start position, cell by cell
StandardStart ==
    [row \in 0 .. 7 |-> [col \in 0 .. 7 |->
        IF <<row, col>> \in {<<3, 3>>, <<4, 4>>} THEN WHITE
        ELSE IF <<row, col>> \in {<<3, 4>>, <<4, 3>>} THEN BLACK
        ELSE EMPTY]]

\* the state restartGame promises
Reset(st) ==
    /\ st.board = StandardStart
    /\ st.currentPlayer = BLACK
    /\ st.playerDisc = BLACK
    /\ st.computerDisc = WHITE
    /\ ~st.isGameOver
    /\ ~st.isComputerThinking
    /\ st.moveHistory = <<>>
    /\ st.moveCounter = 0
    /\ st.lastMove = Null

\* C12: restartGame, run in any reachable state, ends with the live board
\* in the standard start position, currentPlayer and playerDisc Black,
\* computerDisc White, isGameOver and isComputerThinking false, moveHistory
\* empty, moveCounter 0 and lastMove null; so does every state that the
\* Restart button has just produced.
RestartResets ==
    /\ Reset(restartGame(St))
    /\ last.op = "restartGame" => Reset(St)

\* a restart while the computer was thinking after a move of the player
RestartResetsWitness ==
    /\ last.op = "restartGame"
    /\ clicks > 0
    /\ Thinking # {}
    /\ board = StandardStart
    /\ ~isComputerThinking

\* C13: makeMove on a target that is not a valid move for the player (an
\* occupied cell, or a cell where countFlips is 0) does not return with a
\* board that differs from the one it was given.
InvalidMoveNotApplied ==
    (Moved /\ ~result.valid) => result.board = call.board

\* ------------------------------------------------------------------------
\* Properties of the strategies (checked under SpecStrategies)
\* ------------------------------------------------------------------------
Listed(moves) == {moves[i] : i \in 1 .. Len(moves)}

\* makeHardMove was among the calls
HardCalled == "hard" \in DOMAIN result

\* C14: on a non-empty legal-move list makeEasyMove (whatever Math.random()
\* returns), makeMediumMove and makeHardMove each return a move of the
\* list; on a list of one move all three return that move, makeHardMove
\* without a call of minimax.
StrategiesChooseListed ==
    pc = "chosen" =>
        /\ result.easy \in Listed(call.moves)
        /\ result.medium \in Listed(call.moves)
        /\ HardCalled => result.hard \in Listed(call.moves)
        /\ Len(call.moves) = 1 =>
              /\ result.easy = call.moves[1]
              /\ result.medium = call.moves[1]
              /\ HardCalled
              /\ result.hard = call.moves[1]
              /\ result.searches = 0

\* a list of one move, answered by the three strategies with the largest
\* value of Math.random()
StrategiesChooseListedWitness ==
    /\ pc = "chosen"
    /\ Len(call.moves) = 1
    /\ result.random = RandomSteps - 1
    /\ result.easy = call.moves[1]
    /\ result.hard = call.moves[1]

\* the first move of the list, in list order, with the highest score
FirstBest(moves, Score(_, _)) ==
    moves[CHOOSE i \in 1 .. Len(moves) :
            /\ \A j \in 1 .. Len(moves) :
                  Score(moves[j][1], moves[j][2]) <= Score(moves[i][1], moves[i][2])
            /\ \A j \in 1 .. (i - 1) :
                  Score(moves[j][1], moves[j][2]) < Score(moves[i][1], moves[i][2])]

Border(row, col) ==
    row = 0 \/ row = BOARD_SIZE - 1 \/ col = 0 \/ col = BOARD_SIZE - 1

HasCorner(moves) == \E cell \in Listed(moves) : isCorner(cell[1], cell[2])

\* C15: makeMediumMove returns the first move in list order with the
\* highest score under the map that gives 10 to the corners, 0 to the 12
\* cells next to a corner, 5 to the other border cells and 1 to every other
\* cell; when a corner is in the list the move returned is a corner.
MediumFirstBest ==
    /\ Cardinality(adjacentCorners) = 12
    /\ \A cell \in Cells :
          scoreMap(cell[1], cell[2]) =
              IF isCorner(cell[1], cell[2]) THEN 10
              ELSE IF cell \in adjacentCorners THEN 0
              ELSE IF Border(cell[1], cell[2]) THEN 5
              ELSE 1
    /\ "medium" \in DOMAIN result =>
          /\ result.medium = FirstBest(call.moves, scoreMap)
          /\ HasCorner(call.moves) => isCorner(result.medium[1], result.medium[2])

\* a list whose first move is no corner and that has two corners: the first
\* of them is returned
MediumFirstBestWitness ==
    /\ "medium" \in DOMAIN result
    /\ ~isCorner(call.moves[1][1], call.moves[1][2])
    /\ isCorner(result.medium[1], result.medium[2])
    /\ \E i, j \in 1 .. Len(call.moves) :
          /\ i < j
          /\ call.moves[i] = result.medium
          /\ scoreMap(call.moves[j][1], call.moves[j][2]) = 10

\* C16 as stated: makeMediumMove returns the first move in list order that
\* maximizes evaluatePosition, the positional weight table of the advanced
\* evaluator.
MediumMaximizesTable ==
    "medium" \in DOMAIN result =>
        result.medium = FirstBest(call.moves, evaluatePosition)

\* C16: makeMediumMove scores with its own scoreMap and not with the
\* positional weight table: no move of the list has a higher scoreMap score
\* than the move returned, and the move returned is the first that
\* maximizes evaluatePosition whenever a corner is in the list.
MediumMaximizesScoreMap ==
    "medium" \in DOMAIN result =>
        /\ \A cell \in Listed(call.moves) :
              scoreMap(cell[1], cell[2]) <= scoreMap(result.medium[1], result.medium[2])
        /\ HasCorner(call.moves) =>
              result.medium = FirstBest(call.moves, evaluatePosition)

\* a list with a corner that is not its first move: both tables choose it
MediumMaximizesScoreMapWitness ==
    /\ "medium" \in DOMAIN result
    /\ HasCorner(call.moves)
    /\ result.medium # call.moves[1]
    /\ result.medium = FirstBest(call.moves, evaluatePosition)

\* the first corner of a list that has one
FirstCorner(moves) ==
    moves[CHOOSE i \in 1 .. Len(moves) :
            /\ isCorner(moves[i][1], moves[i][2])
            /\ \A j \in 1 .. (i - 1) : ~isCorner(moves[j][1], moves[j][2])]

\* C17: when the list given to makeHardMove contains a corner, makeHardMove
\* returns the first corner in list order without a call of minimax (and so
\* of evaluateBoard): the answer is the same whatever the live board and
\* the computer's colour are.
HardTakesCorner ==
    (HardCalled /\ HasCorner(call.moves)) =>
        /\ result.hard = FirstCorner(call.moves)
        /\ result.searches = 0
        /\ \A b \in {EmptyBoard, StartBoard}, disc \in Discs :
              makeHardMove(call.moves, b, disc) = result.hard

\* a list of several moves with two corners, neither of them its first move
HardTakesCornerWitness ==
    /\ HardCalled
    /\ Len(call.moves) > 2
    /\ ~isCorner(call.moves[1][1], call.moves[1][2])
    /\ Len(SelectSeq(call.moves, LAMBDA m : isCorner(m[1], m[2]))) >= 2
    /\ result.hard = FirstCorner(call.moves)

\* makeHardMove had to search: several moves, no corner
HardSearched ==
    HardCalled /\ Len(call.moves) >= 2 /\ ~HasCorner(call.moves)

\* C18: on a list of at least two moves without a corner makeHardMove
\* returns the first move in list order whose minimax score (on a copy of
\* the live board with the computer's disc played there, depth
\* searchDepth - 1, alpha -Infinity, beta +Infinity, minimizing) is the
\* maximum over the list; a later move wins only with a strictly higher
\* score.
HardFirstBest ==
    (HardSearched /\ pc = "makeMediumMove") =>
        LET scores == HardScores(call.moves, call.board, call.player)
        IN  /\ result.searches = Len(call.moves)
            /\ \E i \in 1 .. Len(call.moves) :
                  /\ result.hard = call.moves[i]
                  /\ \A j \in 1 .. Len(call.moves) : scores[j] <= scores[i]
                  /\ \A j \in 1 .. (i - 1) : scores[j] < scores[i]

\* a search in which a later move replaced the first one and another move
\* after it tied with the best score
HardFirstBestWitness ==
    /\ HardSearched
    /\ result.hard # call.moves[1]
    /\ LET scores == HardScores(call.moves, call.board, call.player)
       IN  \E i, j \in 1 .. Len(call.moves) :
              /\ i < j
              /\ result.hard = call.moves[i]
              /\ scores[j] = scores[i]

\* ------------------------------------------------------------------------
\* Properties of minimax (checked under SpecSearch)
\* ------------------------------------------------------------------------
\* the discs of maxPlayer minus the discs of minPlayer
DiscDifference(b, maxPlayer) ==
    LET black == Cardinality({cell \in Cells : b[cell[1]][cell[2]] = BLACK})
        white == Cardinality({cell \in Cells : b[cell[1]][cell[2]] = WHITE})
    IN  IF maxPlayer = BLACK THEN black - white ELSE white - black

Returned == pc = "returned" /\ call.kind = "minimax"

\* C19 as stated: on a board where neither colour has a move minimax
\* returns the disc difference times 1000 for every depth, alpha, beta and
\* maximizing flag.
TerminalScoreAtEveryDepth ==
    (Returned /\ Terminal(call.board)) =>
        result.value = DiscDifference(call.board, call.maxPlayer) * 1000 * Scale

\* C19: on a board where neither colour has a move minimax, called with a
\* depth of at least 1, returns the disc difference times 1000, positive
\* when maxPlayer has more discs, for every alpha, beta and maximizing flag;
\* called with depth 0 it returns what evaluateBoard returns.
TerminalScore ==
    (Returned /\ Terminal(call.board)) =>
        /\ result.value \in Int
        /\ call.depth >= 1 =>
              /\ result.value = DiscDifference(call.board, call.maxPlayer) * 1000 * Scale
              /\ result.value > 0 <=> DiscDifference(call.board, call.maxPlayer) > 0
        /\ call.depth = 0 =>
              result.value = evaluateBoard(call.board, call.maxPlayer,
                                           Other(call.maxPlayer), call.gamePhase)

\* minimax with an empty window on a finished game that maxPlayer has lost
TerminalScoreWitness ==
    /\ Returned
    /\ Terminal(call.board)
    /\ call.depth = MaxDepth
    /\ call.window[2] < call.window[1]
    /\ DiscDifference(call.board, call.maxPlayer) < 0
    /\ result.value = DiscDifference(call.board, call.maxPlayer) * 1000 * Scale

\* minimax without the two breaks: every move of every list is searched
RECURSIVE minimaxExhaustive(_, _, _, _, _, _)
minimaxExhaustive(b, depth, isMaximizingPlayer, maxPlayer, minPlayer, gamePhase) ==
    LET currentPlayer_ == IF isMaximizingPlayer THEN maxPlayer ELSE minPlayer
    IN  IF depth = 0 THEN evaluateBoard(b, maxPlayer, minPlayer, gamePhase)
        ELSE LET validMoves == getValidMoves(b, currentPlayer_)
                 evals == [i \in 1 .. Len(validMoves) |->
                              minimaxExhaustive(
                                  makeMove(b, validMoves[i][1], validMoves[i][2],
                                           currentPlayer_),
                                  depth - 1, ~isMaximizingPlayer,
                                  maxPlayer, minPlayer, gamePhase)]
                 best == CHOOSE i \in 1 .. Len(validMoves) :
                            \A j \in 1 .. Len(validMoves) :
                               IF isMaximizingPlayer THEN evals[j] <= evals[i]
                               ELSE evals[j] >= evals[i]
             IN  IF Len(validMoves) = 0
                 THEN IF Len(getValidMoves(b, Other(currentPlayer_))) = 0
                      THEN DiscDifference(b, maxPlayer) * 1000 * Scale
                      ELSE minimaxExhaustive(b, depth - 1, ~isMaximizingPlayer,
                                             maxPlayer, minPlayer, gamePhase)
                 ELSE evals[best]

\* C20: called with alpha -Infinity and beta +Infinity, minimax returns what
\* the search without pruning returns, with the same evaluation at depth
\* 0, the same score of a finished game and the same pass rule, for every
\* board, colour of maxPlayer, game phase, maximizing flag and depth.
PruningKeepsValue ==
    (Returned /\ call.window = FullWindow) =>
        result.value = minimaxExhaustive(call.board, call.depth, call.isMaximizingPlayer,
                                         call.maxPlayer, Other(call.maxPlayer),
                                         call.gamePhase)

\* a search of MaxDepth plies in which the loop over the opponent's answers
\* to the mover's second move breaks after the first answer (its score is
\* not above the score of the mover's first move) and leaves out an answer
\* with a lower score
PruningKeepsValueWitness ==
    /\ Returned
    /\ call.window = FullWindow
    /\ call.depth = MaxDepth
    /\ call.isMaximizingPlayer
    /\ LET maxPlayer == call.maxPlayer
           minPlayer == Other(call.maxPlayer)
           validMoves == getValidMoves(call.board, maxPlayer)
       IN  /\ Len(validMoves) >= 2
           /\ LET first == makeMove(call.board, validMoves[1][1], validMoves[1][2], maxPlayer)
                  second == makeMove(call.board, validMoves[2][1], validMoves[2][2], maxPlayer)
                  answers == getValidMoves(second, minPlayer)
              IN  /\ Len(answers) >= 2
                  /\ LET alpha == minimaxExhaustive(first, call.depth - 1, FALSE,
                                                    maxPlayer, minPlayer, call.gamePhase)
                         eval == minimaxExhaustive(
                                     makeMove(second, answers[1][1], answers[1][2], minPlayer),
                                     call.depth - 2, TRUE, maxPlayer, minPlayer,
                                     call.gamePhase)
                     IN  /\ eval <= alpha
                         /\ minimaxExhaustive(second, call.depth - 1, FALSE, maxPlayer,
                                              minPlayer, call.gamePhase) < eval

\* ------------------------------------------------------------------------
\* Properties of the game controller, continued (checked under Spec)
\* ------------------------------------------------------------------------
\* the discs of a colour on the live board
LiveCount(player) ==
    Cardinality({cell \in Cells : board[cell[1]][cell[2]] = player})

\* the status the state calls for
ExpectedStatus ==
    IF isGameOver
    THEN (IF LiveCount(BLACK) > LiveCount(WHITE) THEN "Black wins!"
          ELSE IF LiveCount(WHITE) > LiveCount(BLACK) THEN "White wins!"
          ELSE "It's a tie!")
    ELSE IF isComputerThinking THEN "Computer is thinking..."
    ELSE IF currentPlayer = playerDisc THEN "Your turn"
    ELSE "Computer's turn"

ComputerPlaced ==
    /\ last.op = "thinking"
    /\ last.outcome # Null
    /\ lastMove = last.outcome
    /\ board[lastMove[1]][lastMove[2]] = computerDisc

\* this step is a thinking callback that places a disc on the live board
ComputerPlaces ==
    /\ last'.op = "thinking"
    /\ last'.outcome # Null
    /\ board' # board

\* C22: the computer never places two discs in a row on the live board
\* while the player had a legal move: a thinking callback that placed a
\* disc and left the player a legal move is not followed directly by a
\* thinking callback that places another disc.
TurnAlternation ==
    [][(ComputerPlaced /\ HasMove(board, playerDisc)) => ~ComputerPlaces]_vars

\* the live board, moveCounter, lastMove and currentPlayer are as restartGame
\* leaves them
Fresh ==
    /\ board = StandardStart
    /\ moveCounter = 0
    /\ lastMove = Null
    /\ currentPlayer = playerDisc

\* this step is the callback of a timer
TimerStep == last'.op \in {"makeComputerMove", "thinking"}

\* C23: after restartGame the live board stays the start position,
\* moveCounter stays 0, lastMove stays null and currentPlayer stays
\* playerDisc until the player's next valid click: no timer and no thinking
\* callback scheduled before the restart changes any of them.
RestartHolds ==
    [][(Fresh /\ TimerStep) => Fresh']_vars

\* C24: in every reachable state the number of discs on the live board is
\* 4 + moveCounter, and the cell lastMove names, if any, is occupied on the
\* live board.
DiscsMatchMoveCounter ==
    /\ Occupied(board) = 4 + moveCounter
    /\ lastMove # Null => board[lastMove[1]][lastMove[2]] # EMPTY

\* it is the player's turn and input is accepted
PlayerTurn == ~isGameOver /\ ~isComputerThinking /\ currentPlayer = playerDisc

\* C25: in every state of a session (the page is not loaded again) in which
\* isGameOver is false, isComputerThinking is false and currentPlayer is
\* playerDisc, the player has a legal move on the live board.
NoStuckPlayerTurn == PlayerTurn => HasMove(board, playerDisc)

\* the computer had no move and its thinking callback handed the turn back
\* to the player, who has one
NoStuckPlayerTurnWitness ==
    /\ PlayerTurn
    /\ last.op = "thinking"
    /\ last.outcome = Null
    /\ HasMove(board, playerDisc)

\* C26: in every reachable state in which isGameOver is false and
\* currentPlayer is computerDisc, the state initGame enters by restoring a
\* saved game included, a makeComputerMove timer or a thinking callback is
\* pending.
NoStalledComputerTurn ==
    (~isGameOver /\ currentPlayer = computerDisc) => Len(timers) > 0

\* this step is restartGame, from the button or from the keyboard
RestartStep ==
    \/ last'.op = "restartGame"
    \/ last'.op = "handleKeyboardInput" /\ last'.outcome = "CtrlR"

Snapshot ==
    [board |-> board, currentPlayer |-> currentPlayer,
     lastMove |-> lastMove, moveCounter |-> moveCounter]

\* this step is a valid move of the player, by click or by Enter
PlayerMoveStep ==
    \/ last'.op = "handleCellClick"
    \/ last'.op = "handleKeyboardInput" /\ last'.outcome = "Enter"

\* this step is an accepted undo, from the button or from the keyboard
UndoStep ==
    \/ last'.op = "undoLastMove"
    \/ last'.op = "handleKeyboardInput" /\ last'.outcome = "CtrlU"

\* this step is a page load
LoadStep == last'.op = "initGame"

\* C28: a valid move of the player from state S pushes the snapshot of S,
\* in which currentPlayer is playerDisc; the computer's replies, passes and
\* every other handler but undo, restart and a later move of the player
\* leave moveHistory as it is, and a later move alters no snapshot it
\* keeps; an accepted undo pops the last snapshot and makes board,
\* currentPlayer, lastMove and moveCounter equal to it, so to their values
\* in S.
UndoRoundTrip ==
    [][/\ PlayerMoveStep =>
             /\ Snapshot.currentPlayer = playerDisc
             /\ moveHistory' = IF Len(moveHistory) = HistoryLimit
                               THEN Append(Tail(moveHistory), Snapshot)
                               ELSE Append(moveHistory, Snapshot)
       /\ UndoStep =>
             /\ Len(moveHistory) > 0
             /\ Snapshot' = moveHistory[Len(moveHistory)]
             /\ currentPlayer' = playerDisc'
             /\ moveHistory' = SubSeq(moveHistory, 1, Len(moveHistory) - 1)
       /\ ~(PlayerMoveStep \/ UndoStep \/ RestartStep \/ LoadStep) =>
             moveHistory' = moveHistory]_vars

\* an undo after the computer has answered the player's move: the saved game
\* with four cells left is back, nothing is pending
UndoRoundTripWitness ==
    /\ last.op = "undoLastMove"
    /\ clicks = 1
    /\ timers = <<>>
    /\ moveHistory = <<>>
    /\ moveCounter = Len(GameFourLeft)
    /\ board = SavedGame(GameFourLeft).board
    /\ lastMove = SavedGame(GameFourLeft).lastMove
    /\ currentPlayer = playerDisc

\* the early return of undoLastMove
UndoRefused ==
    Len(moveHistory) = 0 \/ isComputerThinking \/ isGameOver

\* C29: in every reachable state, undoLastMove called with an empty
\* moveHistory, while the computer is thinking or after the game is over
\* leaves board, currentPlayer, moveCounter, lastMove and moveHistory as they
\* are; called in any other state it pops exactly one snapshot, the last.
UndoNoOpOrPop ==
    LET after == undoLastMove(St)
    IN  IF UndoRefused
        THEN /\ after.board = board
             /\ after.currentPlayer = currentPlayer
             /\ after.moveCounter = moveCounter
             /\ after.lastMove = lastMove
             /\ after.moveHistory = moveHistory
        ELSE after.moveHistory
                 = SubSeq(moveHistory, 1, Len(moveHistory) - 1)

\* the game has ended on the player's own move, whose snapshot is still held,
\* and the undo changes nothing
UndoNoOpOrPopWitness ==
    /\ isGameOver
    /\ Len(moveHistory) > 0
    /\ undoLastMove(St).moveHistory = moveHistory
    /\ undoLastMove(St).board = board

\* C30: moveHistory never holds more than HistoryLimit snapshots; a move of
\* the player saved when it holds HistoryLimit of them discards the oldest
\* and keeps the others in their order, and an undo takes the most recent,
\* so that at most the HistoryLimit most recent moves can be undone, the
\* last first.
HistoryBounded ==
    [][/\ Len(moveHistory) <= HistoryLimit
       /\ Len(moveHistory') <= HistoryLimit
       /\ (PlayerMoveStep /\ Len(moveHistory) = HistoryLimit) =>
             moveHistory' = Append(Tail(moveHistory), Snapshot)
       /\ UndoStep =>
             /\ moveHistory' = SubSeq(moveHistory, 1, Len(moveHistory) - 1)
             /\ Snapshot' = moveHistory[Len(moveHistory)]]_vars

\* the eleventh move of a game without undo has just been saved: the
\* snapshot of the start position is gone
HistoryBoundedWitness ==
    /\ last.op = "handleCellClick"
    /\ clicks = HistoryLimit + 1
    /\ Len(moveHistory) = HistoryLimit
    /\ moveHistory[1].moveCounter > 0
    /\ moveHistory[HistoryLimit].moveCounter = moveCounter - 1

\* no occupied cell of the live board becomes EMPTY in this step
DiscsKept ==
    \A cell \in Cells :
        board[cell[1]][cell[2]] # EMPTY => board'[cell[1]][cell[2]] # EMPTY

\* C31: every step of the controller either empties no occupied cell of the
\* live board and leaves the number of its occupied cells as it is or
\* raises it by exactly one, or is an undo that replaces the board by the
\* snapshot recorded last, or is a restart that replaces it by the start
\* position.
DiscMonotonicity ==
    [][\/ /\ DiscsKept
          /\ Occupied(board') \in {Occupied(board), Occupied(board) + 1}
       \/ /\ UndoStep
          /\ Len(moveHistory) > 0
          /\ board' = moveHistory[Len(moveHistory)].board
       \/ /\ RestartStep
          /\ board' = StandardStart]_vars

\* the player's move has flipped discs of a game with four cells left and
\* the board holds one disc more
DiscMonotonicityWitness ==
    /\ last.op = "handleCellClick"
    /\ Occupied(board) = Len(GameFourLeft) + 5
    /\ board # [SavedGame(GameFourLeft).board EXCEPT
                   ![lastMove[1]][lastMove[2]] = playerDisc]

\* the side to move in the call of minimax
Mover == IF call.isMaximizingPlayer THEN call.maxPlayer ELSE Other(call.maxPlayer)

\* C32: called with a depth above 0 on a board where the side to move has
\* no legal move and the other side has one, minimax returns what minimax
\* returns on the same board with the maximizing flag flipped, the same
\* alpha and beta and the depth less one.
PassInSearch ==
    (Returned /\ call.depth > 0 /\ Passes(call.board, Mover)) =>
        result.value = minimax(call.board, call.depth - 1, call.window[1],
                               call.window[2], ~call.isMaximizingPlayer,
                               call.maxPlayer, Other(call.maxPlayer),
                               call.gamePhase)

\* a pass at depth 1 with a narrowed window: the value is the evaluation of
\* the board as it is, no disc placed
PassInSearchWitness ==
    /\ Returned
    /\ call.depth = 1
    /\ Passes(call.board, Mover)
    /\ call.window # FullWindow
    /\ result.value = evaluateBoard(call.board, call.maxPlayer,
                                    Other(call.maxPlayer), call.gamePhase)

\* ------------------------------------------------------------------------
\* Properties of the evaluator (checked under SpecSearch, on the calls of
\* minimax with depth 0, which return what evaluateBoard returns)
\* ------------------------------------------------------------------------
Evaluated == Returned /\ call.depth = 0

\* the cells of a set that hold a disc of maxPlayer, less those that hold a
\* disc of minPlayer
Held(b, cells, maxPlayer) ==
    Cardinality({cell \in cells : b[cell[1]][cell[2]] = maxPlayer})
    - Cardinality({cell \in cells : b[cell[1]][cell[2]] = Other(maxPlayer)})

CornerCells == {cell \in Cells : isCorner(cell[1], cell[2])}

\* the legal moves of maxPlayer less the legal moves of minPlayer
MobilityDifference(b, maxPlayer) ==
    Cardinality({cell \in Cells : isValidMove(b, cell[1], cell[2], maxPlayer)})
    - Cardinality({cell \in Cells : isValidMove(b, cell[1], cell[2], Other(maxPlayer))})

\* the weights of the table, each taken with the cells that carry it
TableSum(b, maxPlayer) ==
    SumSeq(<<100, -50, -20, -2, 0, 1, 5, 10>>,
           LAMBDA weight :
               weight * Held(b, {cell \in Cells :
                                    evaluatePosition(cell[1], cell[2]) = weight},
                             maxPlayer))

\* the empty cells with a disc of minPlayer among their eight neighbours
NextToOpponent(b, minPlayer) ==
    Cardinality({cell \in Cells :
        /\ b[cell[1]][cell[2]] = EMPTY
        /\ \E other \in Cells :
              /\ other # cell
              /\ other[1] - cell[1] \in -1 .. 1
              /\ other[2] - cell[2] \in -1 .. 1
              /\ b[other[1]][other[2]] = minPlayer})

\* (wParity, wMobility, wCorner, wPosition, wEdge, wPotential) in tenths
StatedWeights(gamePhase) ==
    CASE gamePhase = "early" -> <<1, 25, 40, 10, 15, 10>>
      [] gamePhase = "mid" -> <<8, 20, 30, 10, 10, 5>>
      [] gamePhase = "late" -> <<35, 10, 20, 5, 5, 0>>

\* C33: evaluateBoard returns wParity * (discs of max - discs of min)
\* + wMobility * (legal moves of max - legal moves of min)
\* + wCorner * 25 * (corners of max - corners of min)
\* + wPosition * (table weights of max's cells - table weights of min's cells)
\* + wEdge * edgeControl
\* + wPotential * (empty cells with a disc of min among their 8 neighbours),
\* with the weights (0.1, 2.5, 4.0, 1.0, 1.5, 1.0) in the early phase,
\* (0.8, 2.0, 3.0, 1.0, 1.0, 0.5) in the middle and (3.5, 1.0, 2.0, 0.5, 0.5,
\* 0.0) in the late phase.
EvaluatorSum ==
    Evaluated =>
        LET w == StatedWeights(call.gamePhase)
            b == call.board
            maxPlayer == call.maxPlayer
        IN  result.value =
                w[1] * DiscDifference(b, maxPlayer)
                + w[2] * MobilityDifference(b, maxPlayer)
                + w[3] * 25 * Held(b, CornerCells, maxPlayer)
                + w[4] * TableSum(b, maxPlayer)
                + w[5] * edgeControl(b, maxPlayer, Other(maxPlayer))
                + w[6] * NextToOpponent(b, Other(maxPlayer))

\* an evaluation with the early weights in which no term is zero
EvaluatorSumWitness ==
    /\ Evaluated
    /\ call.gamePhase = "early"
    /\ DiscDifference(call.board, call.maxPlayer) # 0
    /\ MobilityDifference(call.board, call.maxPlayer) # 0
    /\ Held(call.board, CornerCells, call.maxPlayer) # 0
    /\ TableSum(call.board, call.maxPlayer) # 0
    /\ edgeControl(call.board, call.maxPlayer, Other(call.maxPlayer)) # 0
    /\ NextToOpponent(call.board, Other(call.maxPlayer)) > 0
    /\ result.value = evaluateBoard(call.board, call.maxPlayer,
                                    Other(call.maxPlayer), "early")

\* the border cells that are no corners
EdgeCells == {cell \in Cells : Border(cell[1], cell[2])} \ CornerCells

\* C34: the edge-control term of evaluateBoard counts +1 (-1) for every
\* border cell that is no corner and holds a disc of maxPlayer (minPlayer)
\* and +2 (-2) for every corner that does, the corner being scanned with its
\* border row and with its border column; the corner-control term counts
\* +25 (-25) for the same corner.
EdgeCountsCornersTwice ==
    Evaluated =>
        LET b == call.board
            maxPlayer == call.maxPlayer
        IN  /\ edgeControl(b, maxPlayer, Other(maxPlayer))
                  = Held(b, EdgeCells, maxPlayer) + 2 * Held(b, CornerCells, maxPlayer)
            /\ cornerScore(b, maxPlayer, Other(maxPlayer))
                  = 25 * Held(b, CornerCells, maxPlayer)

\* an evaluation of a board on which maxPlayer holds more corners than
\* minPlayer: the edge term is above the number of border cells
EdgeCountsCornersTwiceWitness ==
    /\ Evaluated
    /\ Held(call.board, CornerCells, call.maxPlayer) > 0
    /\ edgeControl(call.board, call.maxPlayer, Other(call.maxPlayer))
          > Held(call.board, EdgeCells \cup CornerCells, call.maxPlayer)
    /\ cornerScore(call.board, call.maxPlayer, Other(call.maxPlayer)) >= 25

\* the cells next to a corner: on its diagonal, or in its row or column
DiagonalToCorner ==
    {cell \in Cells : cell[1] \in {1, BOARD_SIZE - 2} /\ cell[2] \in {1, BOARD_SIZE - 2}}
OrthogonalToCorner ==
    {cell \in Cells :
        \E corner \in CornerCells :
            \/ corner[1] = cell[1] /\ (corner[2] - cell[2]) \in {-1, 1}
            \/ corner[2] = cell[2] /\ (corner[1] - cell[1]) \in {-1, 1}}

\* C35: the weight evaluatePosition gives a cell is the weight of its
\* mirror images in the middle row, in the middle column and in the main
\* diagonal; the four corners weigh 100, the four cells diagonally next to a
\* corner -50, the eight cells orthogonally next to a corner -20, and no
\* other cell weighs less than -2.
TableSymmetric ==
    Evaluated =>
        /\ \A cell \in Cells :
              LET r == cell[1]
                  c == cell[2]
              IN  /\ evaluatePosition(r, c) = evaluatePosition(BOARD_SIZE - 1 - r, c)
                  /\ evaluatePosition(r, c) = evaluatePosition(r, BOARD_SIZE - 1 - c)
                  /\ evaluatePosition(r, c) = evaluatePosition(c, r)
                  /\ cell \in CornerCells => evaluatePosition(r, c) = 100
                  /\ cell \in DiagonalToCorner => evaluatePosition(r, c) = -50
                  /\ cell \in OrthogonalToCorner => evaluatePosition(r, c) = -20
                  /\ evaluatePosition(r, c) < -2 =>
                        cell \in DiagonalToCorner \cup OrthogonalToCorner
        /\ Cardinality(CornerCells) = 4
        /\ Cardinality(DiagonalToCorner) = 4
        /\ Cardinality(OrthogonalToCorner) = 8

\* an evaluation that has looked up the weights of a corner, of a cell
\* diagonal to a corner and of a cell orthogonal to one, all three occupied
TableSymmetricWitness ==
    /\ Evaluated
    /\ \E x \in CornerCells, y \in DiagonalToCorner, z \in OrthogonalToCorner :
          /\ call.board[x[1]][x[2]] # EMPTY
          /\ call.board[y[1]][y[2]] # EMPTY
          /\ call.board[z[1]][z[2]] # EMPTY
    /\ positionScore(call.board, call.maxPlayer, Other(call.maxPlayer)) # 0

\* ------------------------------------------------------------------------
\* Properties of makeHardMove across the phases (checked under SpecPhases)
\* ------------------------------------------------------------------------
StatedPhase(total) ==
    IF total < 20 THEN "early" ELSE IF total <= 49 THEN "mid" ELSE "late"

\* the score of the i-th move of the call when the whole search below it runs
\* in one phase
ScoreInPhase(i, gamePhase) ==
    minimax(makeMove(call.board, call.moves[i][1], call.moves[i][2], call.player),
            result.searchDepth - 1, -Infinity, Infinity, FALSE, call.player,
            Other(call.player), gamePhase)

\* C36: makeHardMove takes the phase from the number of discs on the live
\* board, early below 20, mid from 20 to 49, late from 50 on, and the move
\* it returns is the first of the highest score when the search below every
\* move evaluates every board it simulates in that phase, whatever the
\* number of discs on that board.
PhaseOfLiveBoard ==
    pc = "searched" =>
        LET gamePhase == StatedPhase(Occupied(call.board))
        IN  /\ \A total \in 0 .. (BOARD_SIZE * BOARD_SIZE) :
                  GamePhase(total) = StatedPhase(total)
            /\ result.gamePhase = gamePhase
            /\ \A scores \in {[i \in 1 .. Len(call.moves) |-> ScoreInPhase(i, gamePhase)]} :
                  \E i \in 1 .. Len(call.moves) :
                      /\ result.hard = call.moves[i]
                      /\ \A j \in 1 .. Len(call.moves) : scores[j] <= scores[i]
                      /\ \A j \in 1 .. (i - 1) : scores[j] < scores[i]

\* a search from a live board of 19 discs: the boards it evaluates hold 20
\* discs or more, and the score of a move would be another in the mid phase
PhaseOfLiveBoardWitness ==
    /\ pc = "searched"
    /\ Occupied(call.board) = 19
    /\ result.gamePhase = "early"
    /\ result.searchDepth >= 2
    /\ ScoreInPhase(1, "early") # ScoreInPhase(1, "mid")

\* the depth stated for n legal moves
StatedDepth(gamePhase, n) ==
    IF gamePhase = "late"
    THEN CASE n > 8 -> 3 [] n \in 5 .. 8 -> 4 [] n <= 4 -> 5
    ELSE CASE n > 10 -> 2 [] n \in 7 .. 10 -> 3 [] n <= 6 -> 4

\* the lengths a list of legal moves can have
Lengths == 0 .. (BOARD_SIZE * BOARD_SIZE)

\* C37: the depth makeHardMove searches to for n legal moves is, in the late
\* phase, 3 for n > 8, 4 for n from 5 to 8 and 5 for n <= 4, and in the
\* early and mid phases 2 for n > 10, 3 for n from 7 to 10 and 4 for
\* n <= 6; it lies in 3..5 (late) or 2..4 (early, mid), does not rise with
\* n within a phase, and for the same n is in the late phase not below the
\* depth of the other phases.
DepthTable ==
    pc = "searched" =>
        /\ result.searchDepth = StatedDepth(result.gamePhase, Len(call.moves))
        /\ \A gamePhase \in Phases, n \in Lengths :
              /\ SearchDepth(gamePhase, n) = StatedDepth(gamePhase, n)
              /\ SearchDepth(gamePhase, n)
                    \in (IF gamePhase = "late" THEN 3 .. 5 ELSE 2 .. 4)
              /\ \A m \in Lengths : m >= n =>
                    SearchDepth(gamePhase, m) <= SearchDepth(gamePhase, n)
              /\ SearchDepth("late", n) >= SearchDepth(gamePhase, n)

\* a search over seven to ten moves in the mid phase, three plies deep
DepthTableWitness ==
    /\ pc = "searched"
    /\ result.gamePhase = "mid"
    /\ Len(call.moves) \in 7 .. 10
    /\ result.searchDepth = 3
    /\ result.hard \in Listed(call.moves)

\* C38: makeHardMove, with the calls of minimax and evaluateBoard below it,
\* writes neither the live board nor any array twice: every makeMove of the
\* search is called on an array made for it just before, which no other
\* branch is handed; and it returns the move of the search that only reads.
SearchWritesCopiesOnly ==
    (HardCalled /\ pc = "makeMediumMove") =>
        \A traced \in {makeHardMoveTraced(call.moves, call.board, call.player)} :
            /\ traced.move = result.hard
            /\ \A k \in 1 .. Len(traced.writes) : traced.writes[k] = k
            /\ Len(traced.writes) = traced.next

\* a search that has made and written more arrays than the list has moves
SearchWritesCopiesOnlyWitness ==
    /\ HardSearched
    /\ pc = "makeMediumMove"
    /\ Len(makeHardMoveTraced(call.moves, call.board, call.player).writes)
          > Len(call.moves)

\* the call of minimax with the calls nested below it
TracedCall ==
    minimaxTraced(0, 0, call.board, call.depth, call.window[1], call.window[2],
                  call.isMaximizingPlayer, call.maxPlayer, Other(call.maxPlayer),
                  call.gamePhase)

\* C39: a call of minimax with depth d returns, with at most d calls of
\* minimax nested below it, in the move loops and in the pass case alike,
\* and with none for d = 0; makeHardMove starts the search of a list of two
\* moves or more with a depth searchDepth - 1 of at least 1.
SearchTerminates ==
    Returned =>
        /\ \A traced \in {TracedCall} :
              /\ traced.value = result.value
              /\ traced.levels <= call.depth
              /\ call.depth = 0 => traced.levels = 0
        /\ \A gamePhase \in Phases, n \in Lengths :
              SearchDepth(gamePhase, n) - 1 >= 1

\* a search that begins with a pass and goes as deep as its depth allows
SearchTerminatesWitness ==
    /\ Returned
    /\ call.depth >= 2
    /\ Passes(call.board, Mover)
    /\ TracedCall.levels = call.depth

\* C40: in every state of a session the live board has BOARD_SIZE rows of
\* BOARD_SIZE cells, every cell is EMPTY, BLACK or WHITE, currentPlayer is
\* playerDisc or computerDisc, and playerDisc and computerDisc are the two
\* colours.
BoardWellFormed ==
    /\ DOMAIN board = Idx
    /\ \A row \in Idx :
          /\ DOMAIN board[row] = Idx
          /\ \A col \in Idx : board[row][col] \in {EMPTY, BLACK, WHITE}
    /\ Cardinality(Idx) = 8
    /\ currentPlayer \in {playerDisc, computerDisc}
    /\ playerDisc # computerDisc
    /\ {playerDisc, computerDisc} = {BLACK, WHITE}

\* the computer has moved and, the player having no move, checkGameState
\* has handed the turn back to the computer
BoardWellFormedWitness ==
    /\ last.op = "thinking"
    /\ last.outcome # Null
    /\ ~isGameOver
    /\ currentPlayer = computerDisc
    /\ board[lastMove[1]][lastMove[2]] = computerDisc

====
